---- MODULE Spec2Model ----
(***************************************************************************)
(* Schedule-extraction and document-discovery pipeline of the regatta      *)
(* schedule application (app/admin/routes.py, app/admin/ai_service.py).    *)
(*                                                                         *)
(* Four specifications share the variables:                                *)
(*   Spec          the import orchestrator: extraction runs, discovery     *)
(*                 runs, held-result retrievals and the confirmation step  *)
(*   SpecDiscover  one discovery run on every selection and every answer   *)
(*   SpecFetch     the page fetcher with the SSRF guard, hop by hop        *)
(*   SpecConfirm   the confirmation step on every submitted form           *)
(***************************************************************************)
EXTENDS Integers, Sequences, FiniteSets, TLC

VARIABLES
    extraction_results,  \* _extraction_results: token -> held extraction result
    discovery_results,   \* _discovery_results: token -> held regatta_data
    db_regattas,         \* persisted Regatta rows, in insertion order
    db_documents,        \* persisted Document rows, in insertion order
    runs,                \* the streamed invocations (generators), by run number
    retrievals,          \* the held-result retrieval requests served so far
    last_op,             \* the operation that took the last step
    confirm_log,         \* the outcome of the last confirmation step
    fetch_log,           \* the calls of the helpers checked on their own (guard,
                         \* page fetcher, response parser, client, resolver)
    db_rsvps,            \* persisted RSVP rows, in insertion order
    rsvp_requests        \* the RSVP submissions, by request number

vars == <<extraction_results, discovery_results, db_regattas, db_documents,
          runs, retrievals, last_op, confirm_log, fetch_log, db_rsvps, rsvp_requests>>

----------------------------------------------------------------------------
(* Bounds of the model *)

MaxRuns == 2
MaxSelected == 2
MaxDocs == 2
MaxAddrs == 2
MaxHops == 2
MaxRetrievals == 2
MaxConfirms == 1
MaxText == 3
MaxRsvps == 3

----------------------------------------------------------------------------
(* Python values *)

None == "<None>"

RECURSIVE SeqsUpTo(_, _)
SeqsUpTo(S, n) ==
    IF n = 0 THEN {<<>>}
    ELSE LET shorter == SeqsUpTo(S, n - 1)
         IN  shorter \cup {Append(s, x) : s \in {t \in shorter : Len(t) = n - 1}, x \in S}

Range(s) == {s[k] : k \in DOMAIN s}

\* A list comprehension with a condition: the kept elements, in order
SelectSeq2(docs, keep) ==
    LET F[k \in 0..Len(docs)] ==
            IF k = 0 THEN <<>>
            ELSE IF keep[k] THEN Append(F[k - 1], docs[k]) ELSE F[k - 1]
    IN  F[Len(docs)]

----------------------------------------------------------------------------
(* SSRF guard: _is_private_ip *)

\* An address returned by getaddrinfo, by the classification ipaddress gives it.
\* "reserved4" is 240.0.0.0/4 (is_private and is_reserved), "reserved6" an IPv6
\* reserved block such as 4000::/3 (is_reserved only); a loopback address is also
\* is_private; a multicast address carries none of the three flags.
AddrClasses == {"public", "multicast", "private", "loopback", "reserved4", "reserved6"}

is_private(ip) == ip \in {"private", "loopback", "reserved4"}
is_loopback(ip) == ip = "loopback"
is_reserved(ip) == ip \in {"reserved4", "reserved6"}

\* What getaddrinfo can answer: it raises, or returns a non-empty list.
GaiError == <<"gaierror">>
Resolutions == {GaiError} \cup (SeqsUpTo(AddrClasses, MaxAddrs) \ {<<>>})

RECURSIVE AnyRejected(_, _)
AnyRejected(results, k) ==
    IF k > Len(results) THEN FALSE
    ELSE IF is_private(results[k]) \/ is_loopback(results[k]) \/ is_reserved(results[k])
         THEN TRUE
         ELSE AnyRejected(results, k + 1)

\* A plausible slip: only the first resolved address is classified.
IsPrivateIp_FirstOnly(results) ==
    IF results = GaiError THEN TRUE
    ELSE is_private(results[1]) \/ is_loopback(results[1]) \/ is_reserved(results[1])

IsPrivateIp(results) ==
    IF results = GaiError THEN TRUE
    ELSE AnyRejected(results, 1)

----------------------------------------------------------------------------
(* URLs: urllib.parse.urlparse on the URLs of the model *)

ClubspotUrl == "https://theclubspot.com/regatta/abc123"
LookalikeUrl == "https://nottheclubspot.com.evil.example/regatta/x1"
PlainUrl == "https://club.example/r1"
OtherUrl == "https://regatta.example/2026"

HttpClubspotUrl == "http://theclubspot.com/regatta/XYZ789"
SubPathUrl == "https://theclubspot.com/regatta/abc123/documents"

Urls == {"", "club.example/r1", "ftp://club.example/r1", "http:///r1",
         PlainUrl, OtherUrl, ClubspotUrl, "https://theclubspot.com/club/abc123",
         LookalikeUrl}

\* scheme, hostname (None when the URL has no network location) and path
urlparse(url) ==
    CASE url = "" -> [scheme |-> "", hostname |-> None, path |-> ""]
      [] url = "club.example/r1" ->
             [scheme |-> "", hostname |-> None, path |-> "club.example/r1"]
      [] url = "ftp://club.example/r1" ->
             [scheme |-> "ftp", hostname |-> "club.example", path |-> "/r1"]
      [] url = "http:///r1" -> [scheme |-> "http", hostname |-> None, path |-> "/r1"]
      [] url = PlainUrl -> [scheme |-> "https", hostname |-> "club.example", path |-> "/r1"]
      [] url = OtherUrl ->
             [scheme |-> "https", hostname |-> "regatta.example", path |-> "/2026"]
      [] url = ClubspotUrl ->
             [scheme |-> "https", hostname |-> "theclubspot.com", path |-> "/regatta/abc123"]
      [] url = "https://theclubspot.com/club/abc123" ->
             [scheme |-> "https", hostname |-> "theclubspot.com", path |-> "/club/abc123"]
      [] url = LookalikeUrl ->
             [scheme |-> "https", hostname |-> "nottheclubspot.com.evil.example",
              path |-> "/regatta/x1"]
      [] url = HttpClubspotUrl ->
             [scheme |-> "http", hostname |-> "theclubspot.com", path |-> "/regatta/XYZ789"]
      [] url = SubPathUrl ->
             [scheme |-> "https", hostname |-> "theclubspot.com",
              path |-> "/regatta/abc123/documents"]

\* The hosts a response can redirect to, each with what getaddrinfo answers
\* for it.
Target(hostname, dns) == [hostname |-> hostname, dns |-> dns]
Redirects == {Target("regatta.example", <<"public">>),
              Target("intranet.local", <<"private">>),
              Target("localhost", <<"loopback">>)}

----------------------------------------------------------------------------
(* Page fetcher: _fetch_url_content *)

\* What the network answers to one call: the resolution of the URL's host, the
\* targets of the redirects requests.get follows on its own (allow_redirects
\* is left at its default), and the final response.
\* The final response: a page of text, an empty page, an error status, a
\* failed connection, or an HTML page that carries a JSON-LD block or a data-
\* attribute that json.loads refuses, or a JSON-LD block that decodes to
\* something other than objects.
Finals == {"ok_text", "ok_empty", "http_error", "conn_error", "jsonld_not_object",
           "jsonld_undecodable", "data_attr_undecodable"}

Nets == [dns : Resolutions, hops : SeqsUpTo(Redirects, MaxHops), final : Finals]

FetchRaise(kind, checked, requests) ==
    [result |-> kind, text |-> "", checked |-> checked, requests |-> requests]

\* A plausible slip: the scheme is not looked at.
FetchUrlContent_AnyScheme(url, net) ==
    LET parsed == urlparse(url)
    IN  IF parsed.hostname = None \/ IsPrivateIp(net.dns)
        THEN FetchRaise("ValueError", {}, <<>>)
        ELSE [result |-> "ok", text |-> "page text", checked |-> {parsed.hostname},
              requests |-> <<Target(parsed.hostname, net.dns)>>]

FetchUrlContent(url, net) ==
    LET parsed == urlparse(url)
    IN  IF parsed.scheme = "" \/ parsed.hostname = None
        THEN FetchRaise("ValueError", {}, <<>>)
        ELSE IF parsed.scheme \notin {"http", "https"}
        THEN FetchRaise("ValueError", {}, <<>>)
        ELSE IF IsPrivateIp(net.dns)
        THEN FetchRaise("ValueError", {}, <<>>)
        ELSE LET checked == {parsed.hostname}
                 requests == <<Target(parsed.hostname, net.dns)>> \o net.hops
             IN  CASE net.final = "conn_error" ->
                          FetchRaise("RequestException", checked, requests)
                   [] net.final = "http_error" ->
                          FetchRaise("RequestException", checked, requests)
                   [] net.final = "jsonld_not_object" ->
                          \* _extract_jsonld_events: item.get on a JSON-LD value that
                          \* is no object raises AttributeError, which nothing catches
                          FetchRaise("AttributeError", checked, requests)
                   [] net.final = "ok_empty" ->
                          [result |-> "ok", text |-> "", checked |-> checked,
                           requests |-> requests]
                   [] net.final \in {"jsonld_undecodable", "data_attr_undecodable"} ->
                          \* "except (json.JSONDecodeError, ValueError): continue"
                          [result |-> "ok", text |-> "page text", checked |-> checked,
                           requests |-> requests]
                   [] net.final = "ok_text" ->
                          [result |-> "ok", text |-> "page text", checked |-> checked,
                           requests |-> requests]

\* The call reached _is_private_ip(parsed.hostname) and the guard said yes.
GuardRejects(url, net) ==
    /\ urlparse(url).scheme \in {"http", "https"}
    /\ urlparse(url).hostname # None
    /\ IsPrivateIp(net.dns)

\* The outcomes a caller can see, per URL: result and text; beside them,
\* whether a request left and whether the guard turned the host down.
FetchOutcomes ==
    [url \in Urls |->
        {[result |-> FetchUrlContent(url, net).result,
          text |-> FetchUrlContent(url, net).text,
          sent |-> Len(FetchUrlContent(url, net).requests) > 0,
          rejected |-> GuardRejects(url, net)] : net \in Nets}]

----------------------------------------------------------------------------
(* Discovered documents *)

\* A document the model or the platform API returned; an item without a
\* "doc_type" key carries NoKey there.
NoKey == "<no key>"
Doc(doc_type, url) == [doc_type |-> doc_type, url |-> url]

NorDoc == Doc("NOR", "https://club.example/nor.pdf")
SiDoc == Doc("SI", "https://club.example/si.pdf")
BadDoc == Doc(NoKey, "https://club.example/x.pdf")

ShallowDocs == {NorDoc, SiDoc, Doc("WWW", OtherUrl), Doc("WWW", ClubspotUrl), BadDoc}
DeepDocs == {NorDoc, SiDoc, Doc("WWW", OtherUrl), BadDoc}

HasKey(d) == d.doc_type # NoKey
DocTypes(docs) == {docs[k].doc_type : k \in DOMAIN docs}
CountType(docs, t) == Cardinality({k \in DOMAIN docs : docs[k].doc_type = t})

\* str comparison on the doc_type codes of the model
DocTypeRank(t) == CASE t = "NOR" -> 1 [] t = "SI" -> 2 [] t = "WWW" -> 3

RECURSIVE InsertSorted(_, _)
InsertSorted(sorted, d) ==
    IF sorted = <<>> THEN <<d>>
    ELSE IF DocTypeRank(d.doc_type) < DocTypeRank(Head(sorted).doc_type)
         THEN <<d>> \o sorted
         ELSE <<Head(sorted)>> \o InsertSorted(Tail(sorted), d)

\* A plausible slip: the lists are held in the order they were found.
SortDocs_AsFound(docs) == docs

RECURSIVE SortDocs(_)
\* list.sort(key=lambda d: d["doc_type"]): stable, ascending
SortDocs(docs) ==
    IF docs = <<>> THEN <<>>
    ELSE InsertSorted(SortDocs(SubSeq(docs, 1, Len(docs) - 1)), docs[Len(docs)])

----------------------------------------------------------------------------
(* Known-platform resolver *)

\* "theclubspot.com" in hostname: a substring test
ContainsClubspot(hostname) ==
    hostname \in {"theclubspot.com", "nottheclubspot.com.evil.example"}

\* re.match(r"^/regatta/([A-Za-z0-9]+)", path): group 1, or None
RegattaPathId(path) ==
    CASE path = "/regatta/abc123" -> "abc123"
      [] path = "/regatta/x1" -> "x1"
      [] path = "/regatta/XYZ789" -> "XYZ789"
      [] path = "/regatta/abc123/documents" -> "abc123"
      [] OTHER -> None

ParseClubspotRegattaId(url) ==
    LET parsed == urlparse(url)
    IN  IF ~ContainsClubspot(IF parsed.hostname = None THEN "" ELSE parsed.hostname)
        THEN None
        ELSE RegattaPathId(parsed.path)

\* What the platform API answers: the request fails, or the body is no JSON, or
\* it is JSON of another shape than an object, or an object with "results".
ApiItem(type, url) == [type |-> type, URL |-> url]
ApiItems == {ApiItem("nor", "https://cdn.example/nor.pdf"),
             ApiItem("SI", "https://cdn.example/si.pdf"),
             ApiItem("results", "https://cdn.example/res.pdf"),
             ApiItem("nor", "")}
ApiAnswers == [outcome : {"RequestException", "ValueError", "not_object", "ok"},
               results : SeqsUpTo(ApiItems, MaxDocs)]

\* str.lower() / SQL LOWER() on the strings of the model
lower(str) ==
    CASE str = "NOR" -> "nor"
      [] str = "SI" -> "si"
      [] str = "YES" -> "yes"
      [] str = "Spring Regatta" -> "spring regatta"
      [] str = "SPRING REGATTA" -> "spring regatta"
      [] str = "Fall Regatta" -> "fall regatta"
      [] OTHER -> str

\* _CLUBSPOT_DOC_TYPES: the code and the label of a platform type
ClubspotCode(key) == IF key = "nor" THEN "NOR" ELSE "SI"
ClubspotLabel(key) == IF key = "nor" THEN "Notice of Race" ELSE "Sailing Instructions"

\* A plausible slip: the platform's type is compared as it is written.
ClubspotDocs_CaseSensitive(results) ==
    LET kept == SelectSeq2(results, [k \in DOMAIN results |->
                    results[k].type \in {"nor", "si"} /\ results[k].URL # ""])
    IN  [k \in DOMAIN kept |->
            [doc_type |-> ClubspotCode(kept[k].type), url |-> kept[k].URL,
             label |-> ClubspotLabel(kept[k].type)]]

RECURSIVE ClubspotDocs(_)
ClubspotDocs(results) ==
    IF results = <<>> THEN <<>>
    ELSE LET item == Head(results)
             doc_type_key == lower(item.type)
         IN  (IF doc_type_key \in {"nor", "si"} /\ item.URL # ""
              THEN <<[doc_type |-> ClubspotCode(doc_type_key), url |-> item.URL,
                      label |-> ClubspotLabel(doc_type_key)]>>
              ELSE <<>>) \o ClubspotDocs(Tail(results))

\* result "ok" with the documents, or the exception that escapes
FetchClubspotDocuments(regatta_id, api) ==
    CASE api.outcome \in {"RequestException", "ValueError"} ->
             [result |-> "ok", data |-> <<>>]
      [] api.outcome = "not_object" ->
             \* data.get on a JSON value that is no object
             [result |-> "AttributeError", data |-> <<>>]
      [] api.outcome = "ok" ->
             [result |-> "ok", data |-> ClubspotDocs(api.results)]

ClubspotOutcomes == {FetchClubspotDocuments("abc123", api) : api \in ApiAnswers}

----------------------------------------------------------------------------
(* Response text: _parse_json_response on the characters of the answer. A text
   is a sequence of pieces: a space, a line break, a fence of three backticks,
   a language tag, and the pieces of JSON. *)

NL == "\n"
\* the three backticks that open or close a fenced block
Fence == "<fence>"
Pieces == {" ", NL, Fence, "json", "[", "]", ",", "null", "{}", "x"}

IsSpace(piece) == piece \in {" ", NL}

\* str.strip(): without the white space at both ends
StripText(text) ==
    LET inked == {k \in DOMAIN text : ~IsSpace(text[k])}
    IN  IF inked = {} THEN <<>>
        ELSE LET first == CHOOSE k \in inked : \A j \in inked : k <= j
                 last == CHOOSE k \in inked : \A j \in inked : k >= j
             IN  SubSeq(text, first, last)

\* str.split("\n")
RECURSIVE SplitLines(_)
SplitLines(text) ==
    IF \A k \in DOMAIN text : text[k] # NL THEN <<text>>
    ELSE LET cut == CHOOSE k \in DOMAIN text :
                        text[k] = NL /\ \A j \in 1..(k - 1) : text[j] # NL
         IN  <<SubSeq(text, 1, cut - 1)>> \o SplitLines(SubSeq(text, cut + 1, Len(text)))

\* "\n".join(lines)
RECURSIVE JoinLines(_)
JoinLines(lines) ==
    IF lines = <<>> THEN <<>>
    ELSE IF Len(lines) = 1 THEN lines[1]
    ELSE lines[1] \o <<NL>> \o JoinLines(Tail(lines))

\* A plausible slip: only the opening fence line is removed.
Unfenced_OpeningOnly(text) == JoinLines(Tail(SplitLines(text)))

\* lines = [ln for ln in lines[1:] if ln.strip() != FENCE]
Unfenced(text) ==
    LET rest == Tail(SplitLines(text))
    IN  JoinLines(SelectSeq2(rest, [k \in DOMAIN rest |-> StripText(rest[k]) # <<Fence>>]))

\* A JSON value: null, an object, or an array of values
JsonValue(kind, items) == [kind |-> kind, items |-> items]
Parsed(ok, value, rest) == [ok |-> ok, value |-> value, rest |-> rest]
NotJson == Parsed(FALSE, JsonValue("none", <<>>), <<>>)

\* json.loads on the pieces that are not white space: a value, and what follows it
RECURSIVE ParseValue(_)
RECURSIVE ParseItems(_, _)
ParseValue(toks) ==
    IF toks = <<>> THEN NotJson
    ELSE CASE Head(toks) = "null" -> Parsed(TRUE, JsonValue("null", <<>>), Tail(toks))
           [] Head(toks) = "{}" -> Parsed(TRUE, JsonValue("object", <<>>), Tail(toks))
           [] Head(toks) = "[" ->
                  IF Len(toks) >= 2 /\ toks[2] = "]"
                  THEN Parsed(TRUE, JsonValue("array", <<>>), SubSeq(toks, 3, Len(toks)))
                  ELSE ParseItems(Tail(toks), <<>>)
           [] OTHER -> NotJson
ParseItems(toks, acc) ==
    LET v == ParseValue(toks)
    IN  IF ~v.ok \/ v.rest = <<>> THEN NotJson
        ELSE IF Head(v.rest) = ","
        THEN ParseItems(Tail(v.rest), Append(acc, v.value))
        ELSE IF Head(v.rest) = "]"
        THEN Parsed(TRUE, JsonValue("array", Append(acc, v.value)), Tail(v.rest))
        ELSE NotJson

json_loads(text) ==
    LET toks == SelectSeq2(text, [k \in DOMAIN text |-> ~IsSpace(text[k])])
        v == ParseValue(toks)
    IN  IF v.ok /\ v.rest = <<>> THEN v ELSE NotJson

CouldNotParse == "Could not parse the AI response. Try again with clearer input."
UnexpectedFormat == "Unexpected AI response format."

\* A plausible slip: whatever json.loads returns is handed back.
parse_json_response_AnyJson(raw) ==
    LET data == json_loads(StripText(raw))
    IN  IF ~data.ok
        THEN [result |-> "ValueError", message |-> CouldNotParse, data |-> <<>>]
        ELSE [result |-> "ok", message |-> "", data |-> data.value.items]

\* _parse_json_response(raw): the list, or the ValueError with its message
parse_json_response(raw) ==
    LET stripped == StripText(raw)
        text == IF stripped # <<>> /\ Head(stripped) = Fence
                THEN Unfenced(stripped) ELSE stripped
        data == json_loads(text)
    IN  IF ~data.ok
        THEN [result |-> "ValueError", message |-> CouldNotParse, data |-> <<>>]
        ELSE IF data.value.kind # "array"
        THEN [result |-> "ValueError", message |-> UnexpectedFormat, data |-> <<>>]
        ELSE [result |-> "ok", message |-> "", data |-> data.value.items]

\* A plausible slip: the inline copy tests for the fence before stripping the
\* white space around the response.
extract_regattas_parse_Unstripped(text) ==
    LET raw == IF text # <<>> /\ Head(text) = Fence
               THEN JoinLines(SelectSeq2(Tail(SplitLines(text)),
                        [k \in DOMAIN Tail(SplitLines(text)) |->
                            StripText(Tail(SplitLines(text))[k]) # <<Fence>>]))
               ELSE text
        data == json_loads(raw)
    IN  IF ~data.ok
        THEN [result |-> "ValueError", message |-> CouldNotParse, data |-> <<>>]
        ELSE IF data.value.kind # "array"
        THEN [result |-> "ValueError", message |-> UnexpectedFormat, data |-> <<>>]
        ELSE [result |-> "ok", message |-> "", data |-> data.value.items]

\* The end of extract_regattas, from raw = message.content[0].text.strip() to
\* return data: the same steps written out in the function itself
extract_regattas_parse(text) ==
    LET raw0 == StripText(text)
        lines == SplitLines(raw0)
        kept == SelectSeq2(Tail(lines),
                           [k \in DOMAIN Tail(lines) |-> StripText(Tail(lines)[k]) # <<Fence>>])
        raw == IF raw0 # <<>> /\ Head(raw0) = Fence THEN JoinLines(kept) ELSE raw0
        data == json_loads(raw)
    IN  IF ~data.ok
        THEN [result |-> "ValueError", message |-> CouldNotParse, data |-> <<>>]
        ELSE IF data.value.kind # "array"
        THEN [result |-> "ValueError", message |-> UnexpectedFormat, data |-> <<>>]
        ELSE [result |-> "ok", message |-> "", data |-> data.value.items]

----------------------------------------------------------------------------
(* Extraction client: extract_regattas, discover_documents(_deep) *)

AiCalls == {"ok", "APIConnectionError", "RateLimitError", "APIStatusError"}
Shapes == {"not_json", "not_array", "array"}

\* What the provider side answers to one client call: whether the credential
\* is configured, how messages.create ends, and what the response text holds.
AiAnswers(lists) == [key : BOOLEAN, call : AiCalls, shape : Shapes, items : lists]

ParseJsonResponse(shape, items) ==
    CASE shape = "not_json" -> [result |-> "ValueError", data |-> <<>>]
      [] shape = "not_array" -> [result |-> "ValueError", data |-> <<>>]
      [] shape = "array" -> [result |-> "ok", data |-> items]

NotConfigured == "ANTHROPIC_API_KEY is not configured."
NoConnection == "Could not connect to the Claude API."
RateLimited == "Claude API rate limit exceeded. Try again shortly."
\* f"Claude API error: {e.message}"
StatusError == "Claude API error: <e.message>"

Raised(type, message, called) == [type |-> type, message |-> message, called |-> called]

\* A plausible slip: the handler of the rate limit raises the provider's
\* exception again instead of the ConnectionError.
ClientFailure_Leaking(ai) ==
    IF ~ai.key THEN Raised("ValueError", NotConfigured, FALSE)
    ELSE CASE ai.call = "APIConnectionError" -> Raised("ConnectionError", NoConnection, TRUE)
           [] ai.call = "RateLimitError" -> Raised("RateLimitError", "", TRUE)
           [] ai.call = "APIStatusError" -> Raised("ConnectionError", StatusError, TRUE)
           [] OTHER -> Raised(None, "", TRUE)

\* A plausible slip: the credential is looked at only after the call.
ClientFailure_KeyLate(ai) ==
    IF ~ai.key THEN Raised("ValueError", NotConfigured, TRUE)
    ELSE CASE ai.call = "APIConnectionError" -> Raised("ConnectionError", NoConnection, TRUE)
           [] ai.call = "RateLimitError" -> Raised("ConnectionError", RateLimited, TRUE)
           [] ai.call = "APIStatusError" -> Raised("ConnectionError", StatusError, TRUE)
           [] OTHER -> Raised(None, "", TRUE)

\* The head the three client operations share: the credential check and the
\* call of messages.create with its three handlers. What is raised, with
\* which text, and whether the provider was called; type None when the call
\* returned a message.
ClientFailure(ai) ==
    IF ~ai.key THEN Raised("ValueError", NotConfigured, FALSE)
    ELSE CASE ai.call = "APIConnectionError" -> Raised("ConnectionError", NoConnection, TRUE)
           [] ai.call = "RateLimitError" -> Raised("ConnectionError", RateLimited, TRUE)
           [] ai.call = "APIStatusError" -> Raised("ConnectionError", StatusError, TRUE)
           [] OTHER -> Raised(None, "", TRUE)

ClientCall(ai) ==
    IF ClientFailure(ai).type # None
    THEN [result |-> ClientFailure(ai).type, data |-> <<>>,
          called |-> ClientFailure(ai).called]
    ELSE [result |-> ParseJsonResponse(ai.shape, ai.items).result,
          data |-> ParseJsonResponse(ai.shape, ai.items).data,
          called |-> TRUE]

discover_documents(ai) == ClientCall(ai)
discover_documents_deep(ai) == ClientCall(ai)

\* A page that shows the notice, the instructions and a link to the event site
FullShallow == <<NorDoc, SiDoc, Doc("WWW", OtherUrl)>>

ShallowOutcomes ==
    {discover_documents(ai) :
        ai \in AiAnswers(SeqsUpTo(ShallowDocs, MaxDocs) \cup {FullShallow})}
DeepOutcomes ==
    {discover_documents_deep(ai) : ai \in AiAnswers(SeqsUpTo(DeepDocs, MaxDocs))}

----------------------------------------------------------------------------
(* Streamed invocations *)

\* uuid.uuid4(): a fresh token per invocation
Uuid(n) == <<"task-1", "task-2", "task-3", "task-4", "task-5">>[n]

\* One server-sent event: its type and which of the optional keys it carries.
Event(type, message, task_id, summary) ==
    [type |-> type, message |-> message, task_id |-> task_id, summary |-> summary]
Progress == Event("progress", TRUE, None, FALSE)
Result == Event("result", TRUE, None, FALSE)
Error == Event("error", TRUE, None, FALSE)
Failed == Event("failed", FALSE, None, FALSE)
Done(task_id) == Event("done", FALSE, task_id, TRUE)

\* pc values at which the stream has ended: the generator returned ("closed"),
\* an exception escaped it ("crashed"), or the server closed it after the
\* caller went away ("aborted")
Ended == {"closed", "crashed", "aborted"}

Put(store, key, value) ==
    [k \in DOMAIN store \cup {key} |-> IF k = key THEN value ELSE store[k]]
Pop(store, key) == [k \in DOMAIN store \ {key} |-> store[k]]

\* The frame of a run: the fields every kind of run carries.
NewRun(kind, pc, task_id, events) ==
    [kind |-> kind, pc |-> pc, task_id |-> task_id, events |-> events,
     schedule_url |-> "", schedule_text |-> "", content |-> "",
     regattas |-> <<>>, i |-> 1, www_docs |-> <<>>, existing_types |-> {},
     fetches |-> <<>>, model_calls |-> 0, http_sent |-> FALSE,
     shallow_docs |-> <<>>, deep_filtered |-> FALSE, deep_failed |-> <<>>,
     calls |-> <<>>, connected |-> TRUE, guard_rejected |-> FALSE,
     model_error |-> "", shallow_failed |-> <<>>]

----------------------------------------------------------------------------
(* Discovery run: import_schedule_discover *)

\* detail_url_<idx> of the submitted form, stripped
DetailUrls == {"", PlainUrl, ClubspotUrl}

Candidate(detail_url) == [detail_url |-> detail_url, documents |-> <<>>, error |-> None]

DiscoverStart(selected) ==
    /\ Len(runs) < MaxRuns
    /\ LET task_id == Uuid(Len(runs) + 1)
           regatta_data == [k \in 1..Len(selected) |-> Candidate(selected[k])]
           has_detail_urls == \E k \in DOMAIN regatta_data : regatta_data[k].detail_url # ""
           frame == NewRun("discover", "disc_cand", task_id, <<>>)
           run == [frame EXCEPT !.regattas = regatta_data,
                                !.fetches = [k \in DOMAIN regatta_data |-> 0],
                                !.shallow_docs = [k \in DOMAIN regatta_data |-> <<>>],
                                !.calls = [k \in DOMAIN regatta_data |-> <<>>],
                                !.shallow_failed = [k \in DOMAIN regatta_data |-> None],
                                !.deep_failed = [k \in DOMAIN regatta_data |-> 0]]
       IN  runs' = Append(runs,
               IF regatta_data = <<>>
               THEN \* a one-event response, no generator
                    [run EXCEPT !.pc = "closed", !.events = <<Error>>]
               ELSE IF ~has_detail_urls
               THEN [run EXCEPT !.pc = "disc_finish", !.events = <<Progress>>]
               ELSE run)
    /\ last_op' = "discover"
    /\ UNCHANGED <<db_rsvps, rsvp_requests>>
    /\ UNCHANGED <<extraction_results, discovery_results, db_regattas, db_documents,
                   retrievals, confirm_log, fetch_log>>

\* A plausible slip: the WWW entry of a resolved candidate is queued for the
\* deep pass like any other.
WwwDocs_Resolved(docs, cs_id) ==
    SelectSeq2(docs, [k \in DOMAIN docs |-> docs[k].doc_type = "WWW"])

\* docs.append({"doc_type": "WWW", "url": r["detail_url"], "label": ...})
RegattaWebsite(url) == [doc_type |-> "WWW", url |-> url, label |-> "Regatta website"]

\* A plausible slip: every WWW link is queued twice.
WwwDocs_Twice(docs, cs_id) ==
    LET www == SelectSeq2(docs, [k \in DOMAIN docs |->
                                    docs[k].doc_type = "WWW" /\ cs_id = None])
    IN  www \o www

\* www_docs = [d for d in docs if d["doc_type"] == "WWW" and not cs_id]
WwwDocs(docs, cs_id) ==
    SelectSeq2(docs, [k \in DOMAIN docs |-> docs[k].doc_type = "WWW" /\ cs_id = None])

\* Where the loop over regatta_data goes after candidate i.
NextCandidate(run) ==
    [run EXCEPT !.i = run.i + 1,
                !.www_docs = <<>>,
                !.existing_types = {},
                !.pc = IF run.i + 1 > Len(run.regattas) THEN "disc_finish" ELSE "disc_cand"]

Emit(run, evs) == [run EXCEPT !.events = run.events \o evs]

\* History: which step of the candidate's shallow pass raised.
Failing(run, step) == [run EXCEPT !.shallow_failed[run.i] = step]

\* A plausible slip: the outer except clauses report the failure without
\* putting it on the candidate.
ShallowError_Unrecorded(run, kind) ==
    NextCandidate(Emit(run, <<Progress, Error>>))

\* The candidate's pass ends in one of the two outer except clauses.
ShallowError(run, kind) ==
    NextCandidate(Emit([run EXCEPT !.regattas[run.i].error = kind], <<Progress, Error>>))

\* r["documents"] = docs, the "Found: ..." event, and the start of level 2
ShallowFound(run, docs, cs_id) ==
    LET assigned == [run EXCEPT !.regattas[run.i].documents = docs,
                                !.shallow_docs[run.i] = docs]
    IN  IF \E k \in DOMAIN docs : ~HasKey(docs[k])
        THEN \* d["doc_type"] raises KeyError: except (ConnectionError, Exception)
             NextCandidate(Emit([assigned EXCEPT !.regattas[run.i].error = "KeyError"],
                                <<Progress, Error>>))
        ELSE LET www_docs == WwwDocs(docs, cs_id)
                 started == Emit([assigned EXCEPT !.www_docs = www_docs,
                                                  !.existing_types = DocTypes(docs),
                                                  !.pc = "disc_deep"],
                                 <<Progress, Result>>)
             IN  IF www_docs = <<>> THEN NextCandidate(started) ELSE started

Fetched(run) == [run EXCEPT !.fetches[run.i] = @ + 1]
Called(run, called) == [run EXCEPT !.model_calls = @ + (IF called THEN 1 ELSE 0)]

\* What a pass did for one URL, in order: the resolver, the platform API, the
\* page fetcher, the model.
Call(pass, url, op) == [pass |-> pass, url |-> url, op |-> op]
Logged(run, ops) == [run EXCEPT !.calls[run.i] = @ \o ops]

\* A plausible slip: the page is fetched and read although the resolver knew it.
ResolvedCalls_FallThrough(pass, url) ==
    <<Call(pass, url, "resolve"), Call(pass, url, "api"),
      Call(pass, url, "fetch"), Call(pass, url, "model")>>

\* if cs_id: _fetch_clubspot_documents(cs_id)
ResolvedCalls(pass, url) == <<Call(pass, url, "resolve"), Call(pass, url, "api")>>

\* else: _fetch_url_content(url), then the discovery call when the fetch returned
FetchedCalls(pass, url, fetched, called) ==
    <<Call(pass, url, "resolve"), Call(pass, url, "fetch")>>
    \o (IF fetched /\ called THEN <<Call(pass, url, "model")>> ELSE <<>>)

\* One iteration of "for r in regatta_data" up to the level-2 loop.
DiscoverShallow(r, in) ==
    /\ runs[r].pc = "disc_cand"
    /\ LET run == runs[r]
           url == run.regattas[run.i].detail_url
           cs_id == ParseClubspotRegattaId(url)
       IN  \/ /\ url = ""
              /\ runs' = [runs EXCEPT ![r] = NextCandidate(Emit(run, <<Progress>>))]
           \/ /\ url # "" /\ cs_id # None
              /\ \E api \in in.clubspot :
                    LET asked == Logged(run, ResolvedCalls("shallow", url))
                    IN  runs' = [runs EXCEPT ![r] =
                            IF api.result = "ok"
                            THEN ShallowFound(asked, Append(api.data, RegattaWebsite(url)),
                                              cs_id)
                            ELSE ShallowError(Failing(asked, "api"), api.result)]
           \/ /\ url # "" /\ cs_id = None
              /\ \E page \in in.pages[url] :
                    IF page.result # "ok"
                    THEN runs' = [runs EXCEPT ![r] =
                             ShallowError(
                                 Failing(Logged(Fetched(run),
                                                FetchedCalls("shallow", url, FALSE, FALSE)),
                                         "fetch"),
                                 page.result)]
                    ELSE \E ai \in in.shallow :
                            LET asked == Logged(Called(Fetched(run), ai.called),
                                                FetchedCalls("shallow", url, TRUE,
                                                             ai.called))
                            IN  runs' = [runs EXCEPT ![r] =
                                    IF ai.result = "ok"
                                    THEN ShallowFound(asked, ai.data, cs_id)
                                    ELSE ShallowError(Failing(asked, "call"), ai.result)]
    /\ last_op' = "discover"
    /\ UNCHANGED <<db_rsvps, rsvp_requests>>
    /\ UNCHANGED <<extraction_results, discovery_results, db_regattas, db_documents,
                   retrievals, confirm_log, fetch_log>>

\* A plausible slip: the deep pass merges everything it found.
NewDocs_Unfiltered(deep_docs, existing_types) == deep_docs

\* new_docs = [d for d in deep_docs if d["doc_type"] not in existing_types]
NewDocs(deep_docs, existing_types) ==
    SelectSeq2(deep_docs,
               [k \in DOMAIN deep_docs |-> deep_docs[k].doc_type \notin existing_types])

\* The end of one iteration of "for www_doc in www_docs".
DeepAdvance(run) ==
    IF Len(run.www_docs) <= 1
    THEN NextCandidate(run)
    ELSE [run EXCEPT !.www_docs = Tail(run.www_docs)]

\* A plausible slip: the failure of a deep pass is put on the candidate and
\* ends its level-2 loop, as a failure of the shallow pass does.
DeepError_Recorded(run) ==
    NextCandidate(Emit([run EXCEPT !.deep_failed[run.i] = @ + 1,
                                   !.regattas[run.i].error = "Exception"],
                       <<Progress, Error>>))

\* except Exception inside the level-2 loop; deep_failed is history: how many
\* of the candidate's deep passes raised
DeepError(run) ==
    DeepAdvance(Emit([run EXCEPT !.deep_failed[run.i] = @ + 1], <<Progress, Result>>))

DeepFound(run, deep_docs) ==
    IF \E k \in DOMAIN deep_docs : ~HasKey(deep_docs[k])
    THEN DeepError(run)
    ELSE LET new_docs == NewDocs(deep_docs, run.existing_types)
             merged == [run EXCEPT
                 !.regattas[run.i].documents = @ \o new_docs,
                 !.existing_types = @ \cup DocTypes(new_docs),
                 !.deep_filtered = @ \/ (DocTypes(deep_docs) \cap run.existing_types # {})]
         IN  DeepAdvance(Emit(merged, <<Progress, Result>>))

\* A plausible slip: the loop never stops early.
BothFound_Never(existing_types) == FALSE

\* if "NOR" in existing_types and "SI" in existing_types: break
BothFound(existing_types) == "NOR" \in existing_types /\ "SI" \in existing_types

\* One iteration of the level-2 loop over the candidate's WWW links.
DiscoverDeep(r, in) ==
    /\ runs[r].pc = "disc_deep"
    /\ LET run == runs[r]
           www_url == Head(run.www_docs).url
           cs_id == ParseClubspotRegattaId(www_url)
       IN  \/ /\ BothFound(run.existing_types)
              /\ runs' = [runs EXCEPT ![r] = NextCandidate(run)]
           \/ /\ ~BothFound(run.existing_types)
              /\ cs_id # None
              /\ \E api \in in.clubspot :
                    LET asked == Logged(run, ResolvedCalls("deep", www_url))
                    IN  runs' = [runs EXCEPT ![r] =
                            IF api.result = "ok" THEN DeepFound(asked, api.data)
                            ELSE DeepError(asked)]
           \/ /\ ~BothFound(run.existing_types)
              /\ cs_id = None
              /\ \E page \in in.pages[www_url] :
                    IF page.result # "ok"
                    THEN runs' = [runs EXCEPT ![r] =
                             DeepError(Logged(Fetched(run),
                                              FetchedCalls("deep", www_url, FALSE, FALSE)))]
                    ELSE \E ai \in in.deep :
                            LET asked == Logged(Called(Fetched(run), ai.called),
                                                FetchedCalls("deep", www_url, TRUE,
                                                             ai.called))
                            IN  runs' = [runs EXCEPT ![r] =
                                    IF ai.result = "ok" THEN DeepFound(asked, ai.data)
                                    ELSE DeepError(asked)]
    /\ last_op' = "discover"
    /\ UNCHANGED <<db_rsvps, rsvp_requests>>
    /\ UNCHANGED <<extraction_results, discovery_results, db_regattas, db_documents,
                   retrievals, confirm_log, fetch_log>>

\* _discovery_results[task_id] = regatta_data
HoldDiscovery(store, task_id, regatta_data) == Put(store, task_id, regatta_data)

\* The code after the loop: sort every document list, hold the result, "done".
DiscoverFinish(r) ==
    /\ runs[r].pc = "disc_finish"
    /\ LET run == runs[r]
           data == run.regattas
       IN  IF \E k \in DOMAIN data : \E j \in DOMAIN data[k].documents :
                  ~HasKey(data[k].documents[j])
           THEN \* the sort key raises KeyError outside every try
                /\ runs' = [runs EXCEPT ![r].pc = "crashed"]
                /\ UNCHANGED discovery_results
           ELSE LET sorted == [k \in DOMAIN data |->
                                  [data[k] EXCEPT !.documents = SortDocs(@)]]
                IN  /\ discovery_results' =
                           HoldDiscovery(discovery_results, run.task_id, sorted)
                    /\ runs' = [runs EXCEPT ![r] =
                           Emit([run EXCEPT !.regattas = sorted, !.pc = "closed"],
                                <<Done(run.task_id)>>)]
    /\ last_op' = "discover"
    /\ UNCHANGED <<db_rsvps, rsvp_requests>>
    /\ UNCHANGED <<extraction_results, db_regattas, db_documents,
                   retrievals, confirm_log, fetch_log>>

----------------------------------------------------------------------------
(* Dates and the duplicate detector *)

\* date.today().isoformat()
Today == "2026-11-03"

DateStrings == {"2026-03-15", "2026-12-05", "2026-12-06", "2026-12-07"}

\* date.fromisoformat on the strings of the model: the date as <<day of 2026>>,
\* or <<>> where it raises ValueError
fromisoformat(str) ==
    CASE str = "2026-03-15" -> <<74>>
      [] str = "2026-12-05" -> <<339>>
      [] str = "2026-12-06" -> <<340>>
      [] str = "2026-12-07" -> <<341>>
      [] OTHER -> <<>>

\* str < str on the strings of the model (code point order)
StrRank(str) ==
    CASE str = "" -> 0
      [] str = "2026-03-15" -> 1
      [] str = Today -> 2
      [] str = "2026-12-05" -> 3
      [] str = "2026-12-06" -> 4
      [] str = "2026-12-07" -> 5
      [] str = "Dec 5" -> 6
      [] str = "March 15, 2020" -> 7
StrLess(a, b) == StrRank(a) < StrRank(b)

Regatta(name, start_date, end_date) ==
    [name |-> name, start_date |-> start_date, end_date |-> end_date]

\* A plausible slip: the names are compared as they are.
FindDuplicate_CaseSensitive(rows, name, start_date) ==
    LET hits == {k \in DOMAIN rows : rows[k].name = name /\ rows[k].start_date = start_date}
    IN  IF hits = {} THEN 0 ELSE CHOOSE k \in hits : \A j \in hits : k <= j

\* Regatta.query.filter(lower(name) == name.lower(), start_date == start_date)
\* .first(): the position of the first matching row, 0 for None
FindDuplicate(rows, name, start_date) ==
    LET hits == {k \in DOMAIN rows :
                    /\ lower(rows[k].name) = lower(name)
                    /\ rows[k].start_date = start_date}
    IN  IF hits = {} THEN 0 ELSE CHOOSE k \in hits : \A j \in hits : k <= j

----------------------------------------------------------------------------
(* Extraction runs: import_schedule_extract, import_schedule_extract_single *)

\* One object of the array the model returned; None stands for null or a
\* missing key.
Extracted(name, start_date) ==
    [name |-> name, start_date |-> start_date, detail_url |-> None,
     is_past |-> FALSE, duplicate_of |-> 0]

ExtractedEvents == {Extracted("Spring Regatta", "2026-12-05"),
                    Extracted("SPRING REGATTA", "2026-12-05"),
                    Extracted("Spring Regatta", "2026-12-06"),
                    Extracted("Fall Regatta", "2026-03-15"),
                    Extracted(None, None),
                    Extracted("Spring Regatta", "Dec 5"),
                    Extracted(None, "March 15, 2020")}

\* extract_regattas(content, year): the outcome of the client call with
\* str(e) of what it raised
extract_regattas(ai) ==
    [result |-> ClientCall(ai).result, data |-> ClientCall(ai).data,
     called |-> ClientCall(ai).called,
     message |-> IF ClientFailure(ai).type # None THEN ClientFailure(ai).message
                 ELSE CASE ai.shape = "not_json" -> CouldNotParse
                        [] ai.shape = "not_array" -> UnexpectedFormat
                        [] OTHER -> ""]

ExtractOutcomes ==
    {extract_regattas(ai) : ai \in AiAnswers(SeqsUpTo(ExtractedEvents, MaxDocs))}

ScheduleUrls == {"", PlainUrl, "ftp://club.example/r1", "club.example/r1", "http:///r1"}
ScheduleTexts == {"", "pasted text"}

ExtractStart(kind, schedule_text, schedule_url) ==
    /\ Len(runs) < MaxRuns
    /\ kind = "single" => schedule_text = ""
    /\ runs' = Append(runs,
           [NewRun(kind, "ext_fetch", Uuid(Len(runs) + 1), <<>>) EXCEPT
               !.schedule_text = schedule_text,
               !.schedule_url = schedule_url,
               !.fetches = <<0>>])
    /\ last_op' = "extract"
    /\ UNCHANGED <<db_rsvps, rsvp_requests>>
    /\ UNCHANGED <<extraction_results, discovery_results, db_regattas, db_documents,
                   retrievals, confirm_log, fetch_log>>

Fail(run) == [Emit(run, <<Error, Failed>>) EXCEPT !.pc = "closed"]
Crash(run) == [run EXCEPT !.pc = "crashed"]

FetchedOnce(run, page) ==
    [run EXCEPT !.fetches[1] = @ + 1, !.http_sent = page.sent,
                !.guard_rejected = page.rejected]

\* generate() up to "Sending to AI for extraction..."
ExtractFetch(r, in) ==
    /\ runs[r].pc = "ext_fetch"
    /\ LET run == runs[r]
           url == run.schedule_url
           send(rn) == [Emit(rn, <<Progress>>) EXCEPT !.pc = "ext_model"]
       IN  \/ /\ url # ""
              /\ \E page \in in.pages[url] :
                    LET asked == FetchedOnce(Emit(run, <<Progress>>), page)
                    IN  runs' = [runs EXCEPT ![r] =
                            CASE page.result \in {"ValueError", "RequestException"} ->
                                     Fail(asked)
                              [] page.result = "AttributeError" -> Crash(asked)
                              [] page.result = "ok" ->
                                     IF run.kind = "multi" /\ page.text = ""
                                     THEN Fail(asked)
                                     ELSE send([asked EXCEPT !.content = page.text])]
           \/ /\ url = ""
              /\ runs' = [runs EXCEPT ![r] =
                     IF run.kind = "single" \/ run.schedule_text = ""
                     THEN Fail(run)
                     ELSE send(Emit([run EXCEPT !.content = run.schedule_text],
                                    <<Progress>>))]
    /\ last_op' = "extract"
    /\ UNCHANGED <<db_rsvps, rsvp_requests>>
    /\ UNCHANGED <<extraction_results, discovery_results, db_regattas, db_documents,
                   retrievals, confirm_log, fetch_log>>

\* "Mark past events": (r.get("start_date") or "") < today
MarkPast(regattas) ==
    [k \in DOMAIN regattas |->
        [regattas[k] EXCEPT !.is_past =
            StrLess(IF regattas[k].start_date = None THEN "" ELSE regattas[k].start_date,
                    Today)]]

PastCount(regattas) == Cardinality({k \in DOMAIN regattas : regattas[k].is_past})

\* generate() from the model call to the start of the duplicate check
ExtractModel(r, in) ==
    /\ runs[r].pc = "ext_model"
    /\ \E ai \in in.extracted :
          LET run == Called(runs[r], ai.called)
              url == run.schedule_url
          IN  runs' = [runs EXCEPT ![r] =
                  IF ai.result # "ok" THEN [Fail(run) EXCEPT !.model_error = ai.message]
                  ELSE IF run.kind = "multi"
                  THEN LET filled ==
                               IF url # "" /\ Len(ai.data) = 1 /\ ai.data[1].detail_url = None
                               THEN [ai.data EXCEPT ![1].detail_url = url]
                               ELSE ai.data
                           marked == MarkPast(filled)
                           told == Emit(run, IF PastCount(marked) > 0
                                             THEN <<Result, Progress>> ELSE <<Result>>)
                       IN  IF marked = <<>> THEN Fail(told)
                           ELSE [told EXCEPT !.regattas = marked, !.pc = "ext_finish"]
                  ELSE IF ai.data = <<>> THEN Fail(run)
                       ELSE LET first == ai.data[1]
                                one == [first EXCEPT !.detail_url =
                                           IF @ = None THEN url ELSE @]
                            IN  [Emit(run, <<Result>>) EXCEPT
                                    !.regattas = <<one>>, !.pc = "ext_finish"]]
    /\ last_op' = "extract"
    /\ UNCHANGED <<db_rsvps, rsvp_requests>>
    /\ UNCHANGED <<extraction_results, discovery_results, db_regattas, db_documents,
                   retrievals, confirm_log, fetch_log>>

\* "if name and start": both present and non-empty
Checkable(c) == c.name \notin {None, ""} /\ c.start_date \notin {None, ""}

\* The duplicate check of one run: duplicate_of on every candidate that matches
FlagDuplicates(regattas, rows) ==
    [k \in DOMAIN regattas |->
        IF Checkable(regattas[k])
        THEN [regattas[k] EXCEPT !.duplicate_of =
                 FindDuplicate(rows, regattas[k].name,
                               fromisoformat(regattas[k].start_date))]
        ELSE regattas[k]]

DupCount(regattas) == Cardinality({k \in DOMAIN regattas : regattas[k].duplicate_of # 0})

\* The held value: {"regattas": [...]} or {"regatta": {...}}
Held(key, items) == [key |-> key, items |-> items]

\* A plausible slip: "done" is sent without the result being held.
HoldExtraction_Skip(store, task_id, value) == store

\* A plausible slip: holding a result drops the results held before it.
HoldExtraction_Evicting(store, task_id, value) == [k \in {task_id} |-> value]

\* _extraction_results[task_id] = {"regattas": ...} or {"regatta": ...}
HoldExtraction(store, task_id, value) == Put(store, task_id, value)

\* Whether "summary" holds a text. The multi-event run builds a sentence; the
\* single-event run sends r.get("name", "Regatta"): the name, "Regatta" when
\* the key is missing, null when the model gave "name": null.
SummaryGiven(run) ==
    IF run.kind = "single" /\ run.regattas[1].name = None
    THEN {TRUE, FALSE}
    ELSE {TRUE}

ExtractFinishCore(r) ==
    /\ runs[r].pc = "ext_finish"
    /\ LET run == runs[r]
           bad == {k \in DOMAIN run.regattas :
                      /\ Checkable(run.regattas[k])
                      /\ fromisoformat(run.regattas[k].start_date) = <<>>}
       IN  IF bad # {}
           THEN \* date.fromisoformat raises ValueError inside the generator:
                \* the candidates before it have been checked, the others not
                LET first == CHOOSE k \in bad : \A j \in bad : k <= j
                    checked == FlagDuplicates(SubSeq(run.regattas, 1, first - 1),
                                              db_regattas)
                    rest == SubSeq(run.regattas, first, Len(run.regattas))
                IN  /\ runs' = [runs EXCEPT ![r] =
                           Crash([run EXCEPT !.regattas = checked \o rest])]
                    /\ UNCHANGED extraction_results
           ELSE \E summary \in SummaryGiven(run) :
                LET flagged == FlagDuplicates(run.regattas, db_regattas)
                    done == Event("done", FALSE, run.task_id, summary)
                    told == Emit(run, IF DupCount(flagged) > 0
                                      THEN <<Progress, done>>
                                      ELSE <<done>>)
                IN  /\ extraction_results' =
                           HoldExtraction(extraction_results, run.task_id,
                               Held(IF run.kind = "multi" THEN "regattas" ELSE "regatta",
                                    flagged))
                    /\ runs' = [runs EXCEPT ![r] =
                           [told EXCEPT !.regattas = flagged, !.pc = "closed"]]
    /\ last_op' = "extract"
    /\ UNCHANGED <<db_rsvps, rsvp_requests>>
    /\ UNCHANGED <<discovery_results, retrievals, confirm_log, fetch_log>>

\* A plausible slip: the run imports what it extracted.
ExtractFinish_Persisting(r) ==
    /\ ExtractFinishCore(r)
    /\ db_regattas' = db_regattas \o
           [k \in DOMAIN runs[r].regattas |->
               Regatta(runs[r].regattas[k].name, <<>>, <<>>)]
    /\ UNCHANGED db_documents

\* generate() from the duplicate check to "done"
ExtractFinish(r) ==
    /\ ExtractFinishCore(r)
    /\ UNCHANGED <<db_regattas, db_documents>>

----------------------------------------------------------------------------
(* The caller of a stream goes away: Response(stream_with_context(generate())) *)

\* The connection is gone. The generator stays suspended at its last yield
\* and goes on for as long as the server's writes still succeed.
Disconnect(r) ==
    /\ runs[r].pc \notin Ended
    /\ runs[r].connected
    /\ runs' = [runs EXCEPT ![r].connected = FALSE]
    /\ last_op' = "disconnect"
    /\ UNCHANGED <<db_rsvps, rsvp_requests>>
    /\ UNCHANGED <<extraction_results, discovery_results, db_regattas, db_documents,
                   retrievals, confirm_log, fetch_log>>

\* A write failed: the server closes the generator at the yield it is
\* suspended on.
Abort(r) ==
    /\ runs[r].pc \notin Ended
    /\ ~runs[r].connected
    /\ runs' = [runs EXCEPT ![r].pc = "aborted"]
    /\ last_op' = "disconnect"
    /\ UNCHANGED <<db_rsvps, rsvp_requests>>
    /\ UNCHANGED <<extraction_results, discovery_results, db_regattas, db_documents,
                   retrievals, confirm_log, fetch_log>>

----------------------------------------------------------------------------
(* Held-result retrieval: import_single_preview, import_schedule_preview,
   import_schedule_documents *)

Endpoints == {"import_single_preview", "import_schedule_preview",
              "import_schedule_documents"}

StoreOf(endpoint) ==
    IF endpoint = "import_schedule_documents" THEN discovery_results
    ELSE extraction_results

\* The key of the held value the endpoint's template is given.
KeyOf(endpoint) ==
    IF endpoint = "import_single_preview" THEN "regatta" ELSE "regattas"

\* request.args.get("task_id", ""): missing, never issued, or issued
TaskIds == {"", "bogus"} \cup {Uuid(n) : n \in 1..Len(runs)}

Retrieval(endpoint, task_id, pc, outcome, items) ==
    [endpoint |-> endpoint, task_id |-> task_id, pc |-> pc, outcome |-> outcome,
     items |-> items]

\* "if not task_id or task_id not in <store>": flash "not found or expired"
RetrieveCheck(endpoint, task_id) ==
    /\ Len(retrievals) < MaxRetrievals
    /\ retrievals' = Append(retrievals,
           IF task_id = "" \/ task_id \notin DOMAIN StoreOf(endpoint)
           THEN Retrieval(endpoint, task_id, "served", "not_found", <<>>)
           ELSE Retrieval(endpoint, task_id, "pop", "pending", <<>>))
    /\ last_op' = "retrieve"
    /\ UNCHANGED <<db_rsvps, rsvp_requests>>
    /\ UNCHANGED <<extraction_results, discovery_results, db_regattas, db_documents,
                   runs, confirm_log, fetch_log>>

\* "data = <store>.pop(task_id)" and the rendering of the template
RetrievePop(q) ==
    /\ retrievals[q].pc = "pop"
    /\ LET req == retrievals[q]
           store == StoreOf(req.endpoint)
           served(outcome, items) ==
               [retrievals EXCEPT ![q] =
                   Retrieval(req.endpoint, req.task_id, "served", outcome, items)]
       IN  IF req.task_id \notin DOMAIN store
           THEN \* dict.pop without a default raises KeyError
                /\ retrievals' = served("KeyError", <<>>)
                /\ UNCHANGED <<extraction_results, discovery_results>>
           ELSE /\ IF req.endpoint = "import_schedule_documents"
                   THEN /\ discovery_results' = Pop(store, req.task_id)
                        /\ UNCHANGED extraction_results
                        /\ retrievals' = served("returned", store[req.task_id])
                   ELSE /\ extraction_results' = Pop(store, req.task_id)
                        /\ UNCHANGED discovery_results
                        /\ retrievals' =
                               IF store[req.task_id].key = KeyOf(req.endpoint)
                               THEN served("returned", store[req.task_id].items)
                               ELSE \* data["regatta"] / data["regattas"]: KeyError
                                    served("KeyError", <<>>)
    /\ last_op' = "retrieve"
    /\ UNCHANGED <<db_rsvps, rsvp_requests>>
    /\ UNCHANGED <<db_regattas, db_documents, runs, confirm_log, fetch_log>>

----------------------------------------------------------------------------
(* Confirmation step: import_schedule_confirm *)

\* str.strip() on the form values of the model
strip(str) == IF str = "  " THEN "" ELSE str

\* int(doc_count_str), 0 where it raises ValueError
DocCount(str) == CASE str = "1" -> 1 [] str = "2" -> 2 [] OTHER -> 0

\* One submitted document row: doc_<idx>_<d>, doc_type_<idx>_<d>, doc_url_<idx>_<d>
DocRow(checkbox, doc_type, doc_url) ==
    [checkbox |-> checkbox, doc_type |-> doc_type, doc_url |-> doc_url]

\* The fields of one selected index of the form
Entry(name, start_date, end_date, doc_count, docs) ==
    [name |-> name, start_date |-> start_date, end_date |-> end_date,
     doc_count |-> doc_count, docs |-> docs]

Document(regatta_id, doc_type, url) ==
    [regatta_id |-> regatta_id, doc_type |-> doc_type, url |-> url]

\* A plausible slip: the check box of a row is not looked at.
EntryDocuments_Unchecked(e, regatta_id, d_idx, doc_count) ==
    LET last == IF doc_count < Len(e.docs) THEN doc_count ELSE Len(e.docs)
        rows == SubSeq(e.docs, d_idx, last)
        kept == SelectSeq2(rows, [k \in DOMAIN rows |->
                    strip(rows[k].doc_type) # "" /\ strip(rows[k].doc_url) # ""])
    IN  [k \in DOMAIN kept |->
            Document(regatta_id, strip(kept[k].doc_type), strip(kept[k].doc_url))]

\* The documents of a created regatta: the rows below doc_count that are
\* checked and have a type and a URL
RECURSIVE EntryDocuments(_, _, _, _)
EntryDocuments(e, regatta_id, d_idx, doc_count) ==
    IF d_idx > doc_count THEN <<>>
    ELSE (IF d_idx <= Len(e.docs) /\ e.docs[d_idx].checkbox
             /\ strip(e.docs[d_idx].doc_type) # "" /\ strip(e.docs[d_idx].doc_url) # ""
          THEN <<Document(regatta_id, strip(e.docs[d_idx].doc_type),
                          strip(e.docs[d_idx].doc_url))>>
          ELSE <<>>) \o EntryDocuments(e, regatta_id, d_idx + 1, doc_count)

\* A plausible slip: a one-day regatta with its end date given is refused.
EndBeforeStart_OrEqual(end_date, start_date) ==
    end_date # <<>> /\ end_date[1] <= start_date[1]

\* "if end_date and end_date < start_date"
EndBeforeStart(end_date, start_date) ==
    end_date # <<>> /\ end_date[1] < start_date[1]

\* Whether the loop body reaches one of its four "skipped += 1; continue".
Skips(e, rows) ==
    LET name == strip(e.name)
        start_date_str == strip(e.start_date)
        end_date_str == strip(e.end_date)
    IN  \/ name = "" \/ start_date_str = ""
        \/ fromisoformat(start_date_str) = <<>>
        \/ end_date_str # "" /\ fromisoformat(end_date_str) = <<>>
        \/ EndBeforeStart(fromisoformat(end_date_str), fromisoformat(start_date_str))
        \/ FindDuplicate(rows, name, fromisoformat(start_date_str)) # 0

\* One iteration of "for idx in selected" on the session's rows
ConfirmEntry(acc, e) ==
    IF Skips(e, acc.rows)
    THEN [acc EXCEPT !.outcomes = Append(@, "skipped")]
    ELSE LET regatta == Regatta(strip(e.name), fromisoformat(strip(e.start_date)),
                                fromisoformat(strip(e.end_date)))
             docs == EntryDocuments(e, Len(acc.rows) + 1, 1, DocCount(e.doc_count))
         IN  [rows |-> Append(acc.rows, regatta),
              documents |-> acc.documents \o docs,
              outcomes |-> Append(acc.outcomes, "created"),
              docs_created |-> acc.docs_created + Len(docs)]

RECURSIVE ConfirmLoop(_, _)
ConfirmLoop(acc, selected) ==
    IF selected = <<>> THEN acc
    ELSE ConfirmLoop(ConfirmEntry(acc, Head(selected)), Tail(selected))

CountOf(outcomes, what) == Cardinality({k \in DOMAIN outcomes : outcomes[k] = what})

\* The whole handler on one submitted form: the selected entries in order.
Confirm(selected) ==
    /\ Len(confirm_log) < MaxConfirms
    /\ LET start == [rows |-> db_regattas, documents |-> db_documents,
                     outcomes |-> <<>>, docs_created |-> 0]
           \* "if not selected": flash and return before the loop
           done == IF selected = <<>> THEN start ELSE ConfirmLoop(start, selected)
       IN  /\ db_regattas' = done.rows
           /\ db_documents' = done.documents
           /\ confirm_log' = Append(confirm_log,
                  [selected |-> selected,
                   before |-> db_regattas,
                   outcomes |-> done.outcomes,
                   created |-> CountOf(done.outcomes, "created"),
                   skipped |-> CountOf(done.outcomes, "skipped"),
                   docs_created |-> done.docs_created])
    /\ last_op' = "confirm"
    /\ UNCHANGED <<db_rsvps, rsvp_requests>>
    /\ UNCHANGED <<extraction_results, discovery_results, runs, retrievals, fetch_log>>

----------------------------------------------------------------------------
(* RSVP submissions: rsvp, and the rsvps table *)

RsvpRow(regatta_id, user_id, status) ==
    [regatta_id |-> regatta_id, user_id |-> user_id, status |-> status]

\* RSVP.query.filter_by(regatta_id=..., user_id=...).first(): the position of
\* the first matching row, 0 for None
FindRsvp(rows, regatta_id, user_id) ==
    LET hits == {k \in DOMAIN rows :
                    rows[k].regatta_id = regatta_id /\ rows[k].user_id = user_id}
    IN  IF hits = {} THEN 0 ELSE CHOOSE k \in hits : \A j \in hits : k <= j

\* UniqueConstraint("regatta_id", "user_id"): whether the insert is refused
UniqueViolation(rows, row) == FindRsvp(rows, row.regatta_id, row.user_id) # 0

Committed == {q \in DOMAIN rsvp_requests : rsvp_requests[q].pc = "committed"}

\* rsvp() up to the query: the status check and the lookup of the user's row
RsvpSubmit(regatta_id, user_id, form_status) ==
    /\ Len(rsvp_requests) < MaxRsvps
    /\ LET status == lower(form_status)
           request(pc, existing) ==
               [regatta_id |-> regatta_id, user_id |-> user_id,
                form_status |-> form_status, status |-> status,
                pc |-> pc, existing |-> existing,
                loaded |-> IF existing = 0 THEN None ELSE db_rsvps[existing].status,
                seq |-> 0]
       IN  rsvp_requests' = Append(rsvp_requests,
               IF status \notin {"yes", "no", "maybe"}
               THEN request("invalid", 0)
               ELSE request("queried", FindRsvp(db_rsvps, regatta_id, user_id)))
    /\ last_op' = "rsvp"
    /\ UNCHANGED <<extraction_results, discovery_results, db_regattas, db_documents,
                   runs, retrievals, confirm_log, fetch_log, db_rsvps>>

\* rsvp() from the assignment or db.session.add to db.session.commit(): the
\* row found is updated, or a row is inserted unless the table refuses it.
\* The flush compares the attribute with the value the query loaded and
\* sends no UPDATE when the two are equal.
RsvpCommit(q) ==
    /\ rsvp_requests[q].pc = "queried"
    /\ LET req == rsvp_requests[q]
           row == RsvpRow(req.regatta_id, req.user_id, req.status)
           commit == [req EXCEPT !.pc = "committed", !.seq = Cardinality(Committed) + 1]
       IN  IF req.existing # 0
           THEN /\ db_rsvps' = IF req.status = req.loaded THEN db_rsvps
                               ELSE [db_rsvps EXCEPT ![req.existing].status = req.status]
                /\ rsvp_requests' = [rsvp_requests EXCEPT ![q] = commit]
           ELSE IF UniqueViolation(db_rsvps, row)
           THEN /\ db_rsvps' = db_rsvps
                /\ rsvp_requests' = [rsvp_requests EXCEPT ![q].pc = "IntegrityError"]
           ELSE /\ db_rsvps' = Append(db_rsvps, row)
                /\ rsvp_requests' = [rsvp_requests EXCEPT ![q] = commit]
    /\ last_op' = "rsvp"
    /\ UNCHANGED <<extraction_results, discovery_results, db_regattas, db_documents,
                   runs, retrievals, confirm_log, fetch_log>>

----------------------------------------------------------------------------
(* The page fetcher and the SSRF guard on their own inputs *)

\* One call of _is_private_ip on what getaddrinfo answered
GuardCall(results) ==
    /\ fetch_log = <<>>
    /\ fetch_log' = <<[op |-> "guard", dns |-> results, rejected |-> IsPrivateIp(results)]>>
    /\ last_op' = "guard"
    /\ UNCHANGED <<db_rsvps, rsvp_requests>>
    /\ UNCHANGED <<extraction_results, discovery_results, db_regattas, db_documents,
                   runs, retrievals, confirm_log>>

\* One call of _fetch_url_content: the hosts it passed to the guard and the
\* targets it sent a request to, in order
FetchCall(url, net) ==
    /\ fetch_log = <<>>
    /\ fetch_log' = <<[op |-> "fetch", url |-> url, dns |-> net.dns,
                       final |-> net.final,
                       result |-> FetchUrlContent(url, net).result,
                       text |-> FetchUrlContent(url, net).text,
                       checked |-> FetchUrlContent(url, net).checked,
                       requests |-> FetchUrlContent(url, net).requests]>>
    /\ last_op' = "fetch"
    /\ UNCHANGED <<db_rsvps, rsvp_requests>>
    /\ UNCHANGED <<extraction_results, discovery_results, db_regattas, db_documents,
                   runs, retrievals, confirm_log>>

\* One response text given to _parse_json_response and to the inline parsing
\* of extract_regattas: the body, the margins of white space around it and the
\* fence lines it is wrapped in.
ParseCall(pre, open, body, close, post) ==
    /\ fetch_log = <<>>
    /\ LET raw == pre \o open \o body \o close \o post
       IN  fetch_log' = <<[op |-> "parse", raw |-> raw, body |-> body,
                           open |-> open, close |-> close,
                           margins |-> pre \o post,
                           out |-> parse_json_response(raw),
                           inline |-> extract_regattas_parse(raw)]>>
    /\ last_op' = "parse"
    /\ UNCHANGED <<db_rsvps, rsvp_requests>>
    /\ UNCHANGED <<extraction_results, discovery_results, db_regattas, db_documents,
                   runs, retrievals, confirm_log>>

\* One call of _parse_clubspot_regatta_id
ParseIdCall(url) ==
    /\ fetch_log = <<>>
    /\ fetch_log' = <<[op |-> "parse_id", url |-> url,
                       out |-> ParseClubspotRegattaId(url)]>>
    /\ last_op' = "parse_id"
    /\ UNCHANGED <<db_rsvps, rsvp_requests>>
    /\ UNCHANGED <<extraction_results, discovery_results, db_regattas, db_documents,
                   runs, retrievals, confirm_log>>

\* One call of _fetch_clubspot_documents on one answer of the platform API
FetchDocsCall(regatta_id, api) ==
    /\ fetch_log = <<>>
    /\ fetch_log' = <<[op |-> "clubspot_docs", regatta_id |-> regatta_id, api |-> api,
                       out |-> FetchClubspotDocuments(regatta_id, api)]>>
    /\ last_op' = "clubspot_docs"
    /\ UNCHANGED <<db_rsvps, rsvp_requests>>
    /\ UNCHANGED <<extraction_results, discovery_results, db_regattas, db_documents,
                   runs, retrievals, confirm_log>>

\* One call of a client operation on one answer of the provider side
ClientOp(op, ai) ==
    /\ fetch_log = <<>>
    /\ fetch_log' = <<[op |-> op, ai |-> ai,
                       out |-> CASE op = "extract_regattas" -> extract_regattas(ai)
                                 [] op = "discover_documents" -> discover_documents(ai)
                                 [] op = "discover_documents_deep" ->
                                        discover_documents_deep(ai)]>>
    /\ last_op' = "client"
    /\ UNCHANGED <<db_rsvps, rsvp_requests>>
    /\ UNCHANGED <<extraction_results, discovery_results, db_regattas, db_documents,
                   runs, retrievals, confirm_log>>

----------------------------------------------------------------------------
(* Specifications *)

EmptyStore == [k \in {} |-> <<>>]

\* The regatta stored before the behaviour starts.
StoredRegatta == Regatta("Spring Regatta", <<339>>, <<>>)

Init ==
    /\ extraction_results = EmptyStore
    /\ discovery_results = EmptyStore
    /\ db_regattas = <<StoredRegatta>>
    /\ db_documents = <<>>
    /\ runs = <<>>
    /\ retrievals = <<>>
    /\ last_op = "init"
    /\ confirm_log = <<>>
    /\ fetch_log = <<>>
    /\ db_rsvps = <<>>
    /\ rsvp_requests = <<>>

\* What the outside answers in the specification of a single discovery run
\* or a single extraction run: every answer of the model.
AllAnswers ==
    [pages |-> FetchOutcomes, clubspot |-> ClubspotOutcomes,
     shallow |-> ShallowOutcomes, deep |-> DeepOutcomes, extracted |-> ExtractOutcomes]

\* What the outside answers in Spec, where runs, retrievals and confirmations
\* interleave: one answer per way a step can end.
Answered(url, nets) ==
    {[result |-> FetchUrlContent(url, net).result,
      text |-> FetchUrlContent(url, net).text,
      sent |-> Len(FetchUrlContent(url, net).requests) > 0,
      rejected |-> GuardRejects(url, net)] : net \in nets}
FewNets == [dns : {<<"public">>}, hops : {<<>>}, final : {"ok_text", "conn_error"}]
FewAi(lists) == [key : {TRUE}, call : {"ok", "RateLimitError"}, shape : {"array"},
                 items : lists]
FewAnswers ==
    [pages |-> [url \in Urls |-> Answered(url, FewNets)],
     clubspot |-> {FetchClubspotDocuments("abc123", [outcome |-> "ok", results |-> <<>>])},
     shallow |-> {discover_documents(ai) : ai \in FewAi({<<NorDoc>>, <<Doc("WWW", OtherUrl)>>})},
     deep |-> {discover_documents_deep(ai) : ai \in FewAi({<<SiDoc>>})},
     extracted |-> {extract_regattas(ai) :
                       ai \in FewAi({<<Extracted("SPRING REGATTA", "2026-12-05")>>,
                                     <<Extracted("Spring Regatta", "Dec 5")>>})}]

\* The forms the confirmation step is given beside the runs: a new regatta,
\* and a duplicate of the stored one.
SmallForms == {<<Entry("Fall Regatta", "2026-12-06", "", "0", <<>>)>>,
               <<Entry("SPRING REGATTA", "2026-12-05", "", "0", <<>>)>>}

\* The requests that start an extraction run beside the others: pasted text,
\* nothing at all, and a single regatta's URL.
FewExtractions == {<<"multi", "pasted text", "">>, <<"multi", "", "">>,
                   <<"single", "", PlainUrl>>}

\* The steps of a generator before its last touch nothing but its own locals,
\* so the runs are taken one after the other; retrievals and confirmations
\* interleave with their steps.
Idle == \A r \in DOMAIN runs : runs[r].pc \in Ended

Next ==
    \/ Idle /\ \E selected \in {<<>>, <<PlainUrl>>} : DiscoverStart(selected)
    \/ \E r \in DOMAIN runs : DiscoverShallow(r, FewAnswers)
    \/ \E r \in DOMAIN runs : DiscoverDeep(r, FewAnswers)
    \/ \E r \in DOMAIN runs : DiscoverFinish(r)
    \/ Idle /\ \E form \in FewExtractions : ExtractStart(form[1], form[2], form[3])
    \/ \E r \in DOMAIN runs : ExtractFetch(r, FewAnswers)
    \/ \E r \in DOMAIN runs : ExtractModel(r, FewAnswers)
    \/ \E r \in DOMAIN runs : ExtractFinish(r)
    \/ \E endpoint \in Endpoints, task_id \in TaskIds : RetrieveCheck(endpoint, task_id)
    \/ \E q \in DOMAIN retrievals : RetrievePop(q)
    \/ \E selected \in SmallForms : Confirm(selected)

Spec == Init /\ [][Next]_vars

\* A single discovery run on every selection and every answer
NextDiscover ==
    \/ runs = <<>> /\ \E selected \in SeqsUpTo(DetailUrls, MaxSelected) :
                          DiscoverStart(selected)
    \/ \E r \in DOMAIN runs : DiscoverShallow(r, AllAnswers)
    \/ \E r \in DOMAIN runs : DiscoverDeep(r, AllAnswers)
    \/ \E r \in DOMAIN runs : DiscoverFinish(r)

SpecDiscover == Init /\ [][NextDiscover]_vars

\* A single extraction run on every request and every answer
NextExtract ==
    \/ runs = <<>> /\ \E kind \in {"single", "multi"}, schedule_text \in ScheduleTexts,
                          schedule_url \in ScheduleUrls :
                          ExtractStart(kind, schedule_text, schedule_url)
    \/ \E r \in DOMAIN runs : ExtractFetch(r, AllAnswers)
    \/ \E r \in DOMAIN runs : ExtractModel(r, AllAnswers)
    \/ \E r \in DOMAIN runs : ExtractFinish(r)

SpecExtract == Init /\ [][NextExtract]_vars

\* One run of either kind whose caller may go away at any point of it
NextDisconnect ==
    \/ runs = <<>> /\ \E selected \in {<<PlainUrl>>, <<"", PlainUrl>>} :
                          DiscoverStart(selected)
    \/ \E r \in DOMAIN runs : DiscoverShallow(r, FewAnswers)
    \/ \E r \in DOMAIN runs : DiscoverDeep(r, FewAnswers)
    \/ \E r \in DOMAIN runs : DiscoverFinish(r)
    \/ runs = <<>> /\ \E form \in FewExtractions : ExtractStart(form[1], form[2], form[3])
    \/ \E r \in DOMAIN runs : ExtractFetch(r, FewAnswers)
    \/ \E r \in DOMAIN runs : ExtractModel(r, FewAnswers)
    \/ \E r \in DOMAIN runs : ExtractFinish(r)
    \/ \E r \in DOMAIN runs : Disconnect(r)
    \/ \E r \in DOMAIN runs : Abort(r)

SpecDisconnect == Init /\ [][NextDisconnect]_vars

\* The response texts the parser is given: every text of up to MaxText pieces
\* and a few longer arrays, bare or between fence lines, with or without white
\* space around them.
LongArrays == {<<"[", "null", ",", "{}", "]">>, <<"[", NL, "null", NL, "]">>,
               <<"[", "[", "]", "]">>}
Bodies == SeqsUpTo(Pieces, MaxText) \cup LongArrays
Margins == {<<>>, <<" ">>, <<NL>>}
Openings == {<<>>, <<Fence, NL>>, <<Fence, "json", NL>>}
Closings == {<<>>, <<NL, Fence>>}

NextParse ==
    fetch_log = <<>> /\ \E pre \in Margins, open \in Openings, body \in Bodies,
                            close \in Closings, post \in Margins :
                            ParseCall(pre, open, body, close, post)

SpecParse == Init /\ [][NextParse]_vars

\* The client operations on every answer of the provider side, and beside
\* them a single extraction run, the caller of extract_regattas
ClientOps == {"extract_regattas", "discover_documents", "discover_documents_deep"}
ClientLists(op) ==
    CASE op = "extract_regattas" -> SeqsUpTo(ExtractedEvents, MaxDocs)
      [] op = "discover_documents" -> SeqsUpTo(ShallowDocs, MaxDocs)
      [] op = "discover_documents_deep" -> SeqsUpTo(DeepDocs, MaxDocs)

NextClient ==
    \/ runs = <<>> /\ fetch_log = <<>> /\
           \E op \in ClientOps : \E ai \in AiAnswers(ClientLists(op)) : ClientOp(op, ai)
    \/ runs = <<>> /\ fetch_log = <<>> /\
           \E kind \in {"single", "multi"}, schedule_text \in ScheduleTexts,
              schedule_url \in {"", PlainUrl} :
              ExtractStart(kind, schedule_text, schedule_url)
    \/ \E r \in DOMAIN runs : ExtractFetch(r, AllAnswers)
    \/ \E r \in DOMAIN runs : ExtractModel(r, AllAnswers)
    \/ \E r \in DOMAIN runs : ExtractFinish(r)

SpecClient == Init /\ [][NextClient]_vars

\* The resolver on every URL of the model, and the platform query for every
\* identifier it gives on every answer of the platform API
ResolverUrls == Urls \cup {HttpClubspotUrl, SubPathUrl}
RegattaIds == {ParseClubspotRegattaId(url) : url \in ResolverUrls} \ {None}

NextResolver ==
    \/ fetch_log = <<>> /\ \E url \in ResolverUrls : ParseIdCall(url)
    \/ fetch_log = <<>> /\ \E regatta_id \in RegattaIds, api \in ApiAnswers :
                               FetchDocsCall(regatta_id, api)

SpecResolver == Init /\ [][NextResolver]_vars

\* RSVP submissions of two users for one regatta, in every interleaving of
\* their queries and commits
RsvpRegattas == {1}
RsvpUsers == {1, 2}
FormStatuses == {"yes", "no", "YES", "later"}

NextRsvp ==
    \/ \E regatta_id \in RsvpRegattas, user_id \in RsvpUsers, form_status \in FormStatuses :
           RsvpSubmit(regatta_id, user_id, form_status)
    \/ \E q \in DOMAIN rsvp_requests : RsvpCommit(q)

SpecRsvp == Init /\ [][NextRsvp]_vars

NextFetch ==
    \/ fetch_log = <<>> /\ \E results \in Resolutions : GuardCall(results)
    \/ fetch_log = <<>> /\ \E url \in Urls, net \in Nets : FetchCall(url, net)

SpecFetch == Init /\ [][NextFetch]_vars

\* The submitted entries of the confirmation step on its own: every
\* combination of name, start date and end date without documents, and a few
\* entries with document rows.
ConfirmNames == {"  ", "SPRING REGATTA", "Fall Regatta"}
ConfirmStarts == {"", "2026-12-05", "2026-12-06", "Dec 5"}
ConfirmEnds == {"", "2026-12-05", "2026-12-07", "Dec 5"}
DocForms ==
    {<<"1", <<DocRow(TRUE, "NOR", PlainUrl)>>>>,
     <<"2", <<DocRow(FALSE, "NOR", PlainUrl), DocRow(TRUE, "SI", OtherUrl)>>>>,
     <<"1", <<DocRow(TRUE, "  ", PlainUrl), DocRow(TRUE, "SI", OtherUrl)>>>>,
     <<"x", <<DocRow(TRUE, "NOR", PlainUrl)>>>>}
ConfirmEntries ==
    {Entry(name, start_date, end_date, "0", <<>>) :
        name \in ConfirmNames, start_date \in ConfirmStarts, end_date \in ConfirmEnds}
    \cup {Entry("Fall Regatta", "2026-12-06", "", form[1], form[2]) : form \in DocForms}
    \cup {Entry("Spring Regatta", "2026-12-05", "", form[1], form[2]) : form \in DocForms}

\* The store before the form is submitted: empty, or holding one regatta.
InitConfirm ==
    /\ extraction_results = EmptyStore
    /\ discovery_results = EmptyStore
    /\ db_regattas \in {<<>>, <<StoredRegatta>>}
    /\ db_documents = <<>>
    /\ runs = <<>>
    /\ retrievals = <<>>
    /\ last_op = "init"
    /\ confirm_log = <<>>
    /\ fetch_log = <<>>
    /\ db_rsvps = <<>>
    /\ rsvp_requests = <<>>

NextConfirm ==
    confirm_log = <<>> /\ \E selected \in SeqsUpTo(ConfirmEntries, MaxSelected) :
                             Confirm(selected)

SpecConfirm == InitConfirm /\ [][NextConfirm]_vars

----------------------------------------------------------------------------
(* Page fetcher and SSRF guard: properties under SpecFetch *)

Flagged(address) == address \in {"private", "loopback", "reserved4", "reserved6"}

\* C8: every outbound request of the page fetcher, the initial one and every
\* redirect hop it follows, goes to a host that passed the guard before the
\* request was sent. Stated by what follows from it: no request reaches a
\* host the guard would reject, one that does not resolve or that resolves to
\* a private, loopback or reserved address.
C8_NoRequestToRejectedHost ==
    \A k \in DOMAIN fetch_log :
        fetch_log[k].op = "fetch" =>
            \A j \in DOMAIN fetch_log[k].requests :
                LET target == fetch_log[k].requests[j]
                IN  /\ target.dns # GaiError
                    /\ \A a \in DOMAIN target.dns : ~Flagged(target.dns[a])

\* C9: the guard rejects a hostname if and only if resolving it raised or at
\* least one resolved address is private, loopback or reserved; it accepts
\* only when resolution succeeded and every resolved address is none of these.
C9_GuardRejectsIff ==
    \A k \in DOMAIN fetch_log :
        fetch_log[k].op = "guard" =>
            LET results == fetch_log[k].dns
            IN  /\ fetch_log[k].rejected <=>
                       \/ results = GaiError
                       \/ \E a \in DOMAIN results : Flagged(results[a])
                /\ ~fetch_log[k].rejected =>
                       /\ results # GaiError
                       /\ \A a \in DOMAIN results : results[a] \in {"public", "multicast"}

\* C9: the guard was asked about a host whose first address is public and
\* whose second is private, and rejected it.
C9_RejectedOnLaterAddress ==
    \E k \in DOMAIN fetch_log :
        /\ fetch_log[k].op = "guard"
        /\ fetch_log[k].dns = <<"public", "private">>
        /\ fetch_log[k].rejected

----------------------------------------------------------------------------
(* Discovery run: properties under SpecDiscover *)

Last(seq) == seq[Len(seq)]
Terminal(ev) == ev.type \in {"done", "failed"}
Discoveries == {r \in DOMAIN runs : runs[r].kind = "discover"}

C6_AlwaysDoneWithEveryCandidate ==
    \A r \in Discoveries :
        (runs[r].pc \in Ended /\ runs[r].regattas # <<>>) =>
            /\ runs[r].pc = "closed"
            /\ runs[r].events # <<>>
            /\ Last(runs[r].events).type = "done"
            /\ runs[r].task_id \in DOMAIN discovery_results
            /\ Len(discovery_results[runs[r].task_id]) = Len(runs[r].regattas)

\* C7: a deep pass adds to a candidate only documents whose doc_type is not
\* already present on that candidate, from the shallow pass or from an earlier
\* deep pass; a type found by the shallow pass is never added again.
C7_DeepAddsOnlyNewTypes ==
    [][\A r \in DOMAIN runs :
          runs[r].pc = "disc_deep" =>
              \A i \in DOMAIN runs[r].regattas :
                  LET old == runs[r].regattas[i].documents
                      new == runs'[r].regattas[i].documents
                  IN  /\ Len(new) >= Len(old)
                      /\ SubSeq(new, 1, Len(old)) = old
                      /\ \A k \in (Len(old) + 1)..Len(new) :
                            new[k].doc_type \notin DocTypes(old)
                      /\ \A t \in DocTypes(runs[r].shallow_docs[i]) :
                            CountType(new, t) = CountType(runs[r].shallow_docs[i], t)]_vars

\* C7: a deep pass returned a document of a type the candidate already had and
\* one of a new type; the candidate ended with the new one only.
C7_DeepPassFilteredAndAdded ==
    \E r \in Discoveries : \E i \in DOMAIN runs[r].regattas :
        /\ runs[r].pc = "closed"
        /\ runs[r].deep_filtered
        /\ Len(runs[r].regattas[i].documents) > Len(runs[r].shallow_docs[i])
        /\ \A t \in DocTypes(runs[r].shallow_docs[i]) :
              CountType(runs[r].regattas[i].documents, t)
                  = CountType(runs[r].shallow_docs[i], t)

\* The operations of one pass on candidate k, in the order they were made
OpsOf(run, k, pass) ==
    LET mine == SelectSeq2(run.calls[k],
                           [j \in DOMAIN run.calls[k] |-> run.calls[k][j].pass = pass])
    IN  [j \in DOMAIN mine |-> mine[j].op]

\* The shallow pass of candidate k is over.
ShallowPassed(run, k) == k < run.i \/ (k = run.i /\ run.pc = "disc_deep")

Recognised(url) == ParseClubspotRegattaId(url) # None

\* C14: for each selected candidate with a detail URL the resolver is
\* consulted first; if it recognises the URL the platform API is queried and
\* neither a page fetch nor a model call is made for the shallow pass; only if
\* it does not recognise the URL are the page fetch and the shallow discovery
\* call made.
C14_ResolverFirstThenApiOrFetch ==
    \A r \in Discoveries :
        \A k \in DOMAIN runs[r].regattas :
            LET url == runs[r].regattas[k].detail_url
                ops == OpsOf(runs[r], k, "shallow")
            IN  IF url # "" /\ ShallowPassed(runs[r], k)
                THEN /\ ops # <<>> /\ ops[1] = "resolve"
                     /\ Recognised(url) => ops = <<"resolve", "api">>
                     /\ ~Recognised(url) =>
                            ops \in {<<"resolve", "fetch">>, <<"resolve", "fetch", "model">>}
                ELSE ops = <<>>

\* A run that resolved one candidate through the platform API and read the
\* page of another with the model.
C14_OneResolvedOneFetched ==
    \E r \in Discoveries :
        /\ runs[r].pc = "closed"
        /\ \E k \in DOMAIN runs[r].regattas :
              /\ Recognised(runs[r].regattas[k].detail_url)
              /\ OpsOf(runs[r], k, "shallow") = <<"resolve", "api">>
        /\ \E k \in DOMAIN runs[r].regattas :
              /\ runs[r].regattas[k].detail_url = PlainUrl
              /\ OpsOf(runs[r], k, "shallow") = <<"resolve", "fetch", "model">>

\* The deep-pass log of candidate k
DeepCalls(run, k) ==
    SelectSeq2(run.calls[k], [j \in DOMAIN run.calls[k] |-> run.calls[k][j].pass = "deep"])

\* C15: in the deep pass, when the WWW link under examination is a
\* known-platform regatta URL, the deep documents come from the platform
\* resolver and neither a page fetch nor a model call is made for that link.
C15_DeepKnownPlatformUsesResolver ==
    \A r \in Discoveries :
        \A k \in DOMAIN runs[r].regattas :
            LET deep == DeepCalls(runs[r], k)
            IN  \A j \in DOMAIN deep :
                    Recognised(deep[j].url) =>
                        /\ deep[j].op \in {"resolve", "api"}
                        /\ deep[j].op = "resolve" =>
                               /\ j < Len(deep)
                               /\ deep[j + 1] = Call("deep", deep[j].url, "api")

\* The shallow pass read a page that links to a known-platform regatta; the
\* deep pass took that link's documents from the platform API.
C15_DeepLinkResolved ==
    \E r \in Discoveries :
        /\ runs[r].pc = "closed"
        /\ Len(runs[r].regattas) = 1
        /\ runs[r].regattas[1].detail_url = PlainUrl
        /\ DeepCalls(runs[r], 1) =
               <<Call("deep", ClubspotUrl, "resolve"), Call("deep", ClubspotUrl, "api")>>
        /\ "NOR" \in DocTypes(runs[r].regattas[1].documents)
        /\ runs[r].fetches[1] = 1 /\ runs[r].model_calls = 1

NorAndSi(docs) == {"NOR", "SI"} \subseteq DocTypes(docs)

\* C16: if the shallow pass already found both a NOR and an SI document for a
\* candidate, no deep pass (no fetch, no resolver query, no deep model call)
\* is performed for that candidate; and once both types are present after a
\* deep pass, no further WWW link is examined.
C16_NoDeepOnceNorAndSi ==
    [][\A r \in Discoveries :
          LET a == runs[r]
              b == runs'[r]
          IN  \A k \in DOMAIN a.regattas :
                  /\ NorAndSi(b.shallow_docs[k]) => DeepCalls(b, k) = <<>>
                  /\ NorAndSi(a.regattas[k].documents) =>
                         /\ b.calls[k] = a.calls[k]
                         /\ b.fetches[k] = a.fetches[k]
                         /\ (k = a.i /\ a.pc = "disc_deep") =>
                                b.model_calls = a.model_calls]_vars

\* One candidate's page showed NOR, SI and a link, and the link was left
\* alone; another's first link gave NOR and SI, and its second link was left
\* alone.
C16_LinksLeftAlone ==
    \E r \in Discoveries :
        /\ runs[r].pc = "closed"
        /\ Len(runs[r].regattas) = 2
        /\ runs[r].shallow_docs[1] = FullShallow
        /\ DeepCalls(runs[r], 1) = <<>>
        /\ runs[r].fetches[1] = 1
        /\ runs[r].shallow_docs[2] = <<Doc("WWW", ClubspotUrl), Doc("WWW", OtherUrl)>>
        /\ DeepCalls(runs[r], 2) =
               <<Call("deep", ClubspotUrl, "resolve"), Call("deep", ClubspotUrl, "api")>>
        /\ NorAndSi(runs[r].regattas[2].documents)
        /\ runs[r].fetches[2] = 1

\* C20: in every held discovery result, each candidate's document list is
\* ordered by doc_type code (non-decreasing), for every candidate including
\* those that carry an error or received documents from a deep pass.
C20_HeldDocumentsSorted ==
    \A t \in DOMAIN discovery_results :
        \A k \in DOMAIN discovery_results[t] :
            LET docs == discovery_results[t][k].documents
            IN  \A j \in 1..(Len(docs) - 1) :
                    DocTypeRank(docs[j].doc_type) <= DocTypeRank(docs[j + 1].doc_type)

\* A held result whose first candidate was found as WWW, SI and then, in the
\* deep pass, NOR, and whose second candidate carries an error.
C20_HeldAfterDeepPassAndError ==
    \E r \in Discoveries :
        /\ runs[r].task_id \in DOMAIN discovery_results
        /\ Len(runs[r].regattas) = 2
        /\ runs[r].shallow_docs[1] = <<Doc("WWW", OtherUrl), SiDoc>>
        /\ LET held == discovery_results[runs[r].task_id]
           IN  /\ held[1].documents = <<NorDoc, SiDoc, Doc("WWW", OtherUrl)>>
               /\ held[2].error # None

----------------------------------------------------------------------------
(* Confirmation step: properties under SpecConfirm *)

\* What the specification says of one submitted entry, on the form's strings.
Missing(e) == strip(e.name) = "" \/ strip(e.start_date) = ""
ValidIso(str) == str \in DateStrings
InvalidDate(e) ==
    \/ ~ValidIso(strip(e.start_date))
    \/ strip(e.end_date) # "" /\ ~ValidIso(strip(e.end_date))
EndsBeforeItStarts(e) ==
    /\ ValidIso(strip(e.start_date)) /\ ValidIso(strip(e.end_date))
    /\ StrLess(strip(e.end_date), strip(e.start_date))
SameEvent(e, name, start_date) ==
    lower(strip(e.name)) = lower(name) /\ fromisoformat(strip(e.start_date)) = start_date

\* C10: every selected entry is either persisted or skipped, never both; it is
\* skipped exactly when its name or start date is missing, a submitted date
\* is no valid ISO date, the end date is before the start date, or it
\* duplicates a stored regatta (one stored before, or one persisted earlier
\* in the same submission); created + skipped is the number of selected
\* entries, and with no selected entry nothing is persisted.
C10_SkippedExactlyWhenInvalidOrDuplicate ==
    \A c \in DOMAIN confirm_log :
        LET rec == confirm_log[c]
            n == Len(rec.selected)
            Duplicate(k) ==
                \/ \E row \in Range(rec.before) :
                      SameEvent(rec.selected[k], row.name, row.start_date)
                \/ \E j \in 1..(k - 1) :
                      /\ rec.outcomes[j] = "created"
                      /\ SameEvent(rec.selected[k], strip(rec.selected[j].name),
                                   fromisoformat(strip(rec.selected[j].start_date)))
            persisted == SubSeq(db_regattas, Len(rec.before) + 1, Len(db_regattas))
            createdAt == {k \in 1..n : rec.outcomes[k] = "created"}
        IN  /\ Len(rec.outcomes) = n
            /\ \A k \in 1..n :
                  /\ rec.outcomes[k] \in {"created", "skipped"}
                  /\ rec.outcomes[k] = "skipped" <=>
                        \/ Missing(rec.selected[k])
                        \/ InvalidDate(rec.selected[k])
                        \/ EndsBeforeItStarts(rec.selected[k])
                        \/ Duplicate(k)
            /\ rec.created + rec.skipped = n
            /\ rec.created = Cardinality(createdAt)
            /\ SubSeq(db_regattas, 1, Len(rec.before)) = rec.before
            /\ Len(persisted) = rec.created
            /\ \A k \in createdAt :
                  \E p \in DOMAIN persisted :
                      /\ persisted[p].name = strip(rec.selected[k].name)
                      /\ persisted[p].start_date = fromisoformat(strip(rec.selected[k].start_date))
            /\ n = 0 => (db_regattas = rec.before /\ db_documents = <<>>)

\* C10: a submission of two entries onto an empty store, the second the same
\* event as the first in other letter case: the first was persisted, the
\* second skipped.
C10_SecondEntrySkippedAsDuplicate ==
    \E c \in DOMAIN confirm_log :
        /\ confirm_log[c].before = <<>>
        /\ confirm_log[c].outcomes = <<"created", "skipped">>
        /\ confirm_log[c].selected[1].name = "Spring Regatta"
        /\ confirm_log[c].selected[2].name = "SPRING REGATTA"
        /\ Len(db_regattas) = 1

\* C11: after a confirmation step no regatta it created has the same
\* case-insensitive name and the same start date as any other stored regatta,
\* neither one stored before the step nor another one created from the same
\* submission.
C11_CreatedNeverDuplicates ==
    \A c \in DOMAIN confirm_log :
        \A p \in (Len(confirm_log[c].before) + 1)..Len(db_regattas) :
            \A q \in DOMAIN db_regattas :
                q # p =>
                    ~(/\ lower(db_regattas[q].name) = lower(db_regattas[p].name)
                      /\ db_regattas[q].start_date = db_regattas[p].start_date)

\* C11: the step created a regatta of the same name, in other letter case,
\* as a stored one that starts on another day, and skipped an entry.
C11_CreatedBesideSameNameOtherDay ==
    \E c \in DOMAIN confirm_log :
        /\ confirm_log[c].before = <<StoredRegatta>>
        /\ confirm_log[c].created = 1 /\ confirm_log[c].skipped = 1
        /\ Len(db_regattas) = 2
        /\ db_regattas[2].name = "SPRING REGATTA"
        /\ db_regattas[2].start_date # StoredRegatta.start_date

----------------------------------------------------------------------------
(* Import orchestrator: properties under Spec *)

HasDone(events) == \E k \in DOMAIN events : events[k].type = "done"
EndedInDone(run) == run.pc = "closed" /\ run.events # <<>> /\ Last(run.events).type = "done"
EndedInFailed(run) ==
    run.pc = "closed" /\ run.events # <<>> /\ Last(run.events).type = "failed"

\* C2: every event stream of the multi-event extraction, the single-event
\* extraction and the discovery operation contains exactly one terminal event
\* ("done" or "failed"), and that event is the last of the stream.
C2_ExactlyOneTerminalEventLast ==
    \A r \in DOMAIN runs :
        runs[r].pc \in Ended =>
            /\ runs[r].events # <<>>
            /\ Terminal(Last(runs[r].events))
            /\ Cardinality({k \in DOMAIN runs[r].events : Terminal(runs[r].events[k])}) = 1

\* The store a run holds its result in is the one the endpoint reads.
OnStoreOf(endpoint, run) ==
    (endpoint = "import_schedule_documents") <=> (run.kind = "discover")

\* C3: for a token issued by a completed run the first held-result retrieval
\* returns that run's candidates and removes the entry, every later retrieval
\* with the token reports "not found" and returns no candidates, and a
\* retrieval with a missing or never-issued token reports "not found". Stated
\* on the step that serves a retrieval, for the endpoints that read the store
\* the run holds its result in; a later retrieval is one served after a
\* retrieval with the token that found the entry.
C3_FirstRetrievalReturnsLaterNotFound ==
    [][\A q \in DOMAIN retrievals' :
          (/\ retrievals'[q].pc = "served"
           /\ q \in DOMAIN retrievals => retrievals[q].pc # "served") =>
              LET req == retrievals'[q]
                  issuers == {r \in DOMAIN runs : runs[r].task_id = req.task_id}
                  servedBefore ==
                      \E j \in DOMAIN retrievals :
                          /\ j # q
                          /\ retrievals[j].pc = "served"
                          /\ retrievals[j].outcome # "not_found"
                          /\ retrievals[j].task_id = req.task_id
                          /\ (retrievals[j].endpoint = "import_schedule_documents")
                                 <=> (req.endpoint = "import_schedule_documents")
              IN  /\ (req.task_id = "" \/ issuers = {}) =>
                         (req.outcome = "not_found" /\ req.items = <<>>)
                  /\ \A r \in issuers :
                        (EndedInDone(runs[r]) /\ OnStoreOf(req.endpoint, runs[r])) =>
                            IF servedBefore
                            THEN req.outcome = "not_found" /\ req.items = <<>>
                            ELSE /\ req.outcome = "returned"
                                 /\ req.items = runs[r].regattas
                                 /\ req.task_id \notin DOMAIN extraction_results'
                                 /\ req.task_id \notin DOMAIN discovery_results']_vars

\* C4: extraction runs, discovery runs and held-result retrievals never create,
\* modify or delete persisted Regatta or Document records; the persisted store
\* changes only in a step of the confirmation, which touches no run, no held
\* result and no retrieval.
C4_PersistedOnlyByConfirm ==
    [][(db_regattas' # db_regattas \/ db_documents' # db_documents) =>
          /\ last_op' = "confirm"
          /\ Len(confirm_log') = Len(confirm_log) + 1
          /\ UNCHANGED <<runs, retrievals, extraction_results, discovery_results>>]_vars

\* C4: an extraction run ended in "done", another run ended without it, a held
\* result was returned, no confirmation took place, and the persisted store is
\* what it was at the start.
C4_RunsAndRetrievalLeftStoreAlone ==
    /\ \E r \in DOMAIN runs : runs[r].kind # "discover" /\ EndedInDone(runs[r])
    /\ \E r \in DOMAIN runs : runs[r].pc \in Ended /\ ~EndedInDone(runs[r])
    /\ \E q \in DOMAIN retrievals : retrievals[q].outcome = "returned"
    /\ confirm_log = <<>>
    /\ db_regattas = <<StoredRegatta>>
    /\ db_documents = <<>>

\* The held entry of a run: its token mapped to its candidates.
HoldsResultOf(run, extraction, discovery) ==
    IF run.kind = "discover"
    THEN /\ run.task_id \in DOMAIN discovery
         /\ discovery[run.task_id] = run.regattas
    ELSE /\ run.task_id \in DOMAIN extraction
         /\ extraction[run.task_id].items = run.regattas

\* C5: a held result is inserted only by a run that completes successfully:
\* on the step that emits "done" the token it carries is in the store with
\* that run's candidates, every entry that appears in a store appears on such
\* a step under the token of the run taking it, and a run that ends in
\* "failed" inserts nothing.
C5_HeldOnlyOnDone ==
    [][/\ \A r \in DOMAIN runs :
             (HasDone(runs'[r].events) /\ ~HasDone(runs[r].events)) =>
                 /\ Last(runs'[r].events) = Done(runs[r].task_id)
                 /\ HoldsResultOf(runs'[r], extraction_results', discovery_results')
       /\ \A t \in (DOMAIN extraction_results' \ DOMAIN extraction_results)
                     \cup (DOMAIN discovery_results' \ DOMAIN discovery_results) :
             \E r \in DOMAIN runs :
                 /\ runs[r].task_id = t
                 /\ HasDone(runs'[r].events) /\ ~HasDone(runs[r].events)
       /\ \A r \in DOMAIN runs :
             (EndedInFailed(runs'[r]) /\ ~EndedInFailed(runs[r])) =>
                 UNCHANGED <<extraction_results, discovery_results>>]_vars

\* C5: one run ended in "done" and its token is in the store with its
\* candidates; another ended in "failed" and no entry carries its token.
C5_DoneHeldFailedNot ==
    /\ \E r \in DOMAIN runs :
          /\ EndedInDone(runs[r])
          /\ HoldsResultOf(runs[r], extraction_results, discovery_results)
    /\ \E r \in DOMAIN runs :
          /\ EndedInFailed(runs[r])
          /\ runs[r].task_id \notin DOMAIN extraction_results \cup DOMAIN discovery_results

\* The endpoint the page of a run sends its token to.
PreviewOf(run) ==
    CASE run.kind = "single" -> "import_single_preview"
      [] run.kind = "multi" -> "import_schedule_preview"
      [] run.kind = "discover" -> "import_schedule_documents"

\* C12: under any interleaving of concurrent held-result retrievals for the
\* same token, exactly one retrieval returns the candidates and every other
\* one reports "not found"; no retrieval ends in an unhandled error. Stated
\* for the tokens that were only ever presented to the endpoint of their run.
C12_ConcurrentRetrievalsOneWinner ==
    \A r \in DOMAIN runs :
        LET asked == {q \in DOMAIN retrievals : retrievals[q].task_id = runs[r].task_id}
        IN  (\A q \in asked : retrievals[q].endpoint = PreviewOf(runs[r])) =>
                /\ \A q \in asked :
                      retrievals[q].pc = "served" =>
                          retrievals[q].outcome \in {"returned", "not_found"}
                /\ Cardinality({q \in asked : retrievals[q].outcome = "returned"}) <= 1

----------------------------------------------------------------------------
(* Extraction run: properties under SpecExtract *)

Extractions == {r \in DOMAIN runs : runs[r].kind \in {"single", "multi"}}

\* C13: within one extraction run the page fetch is attempted at most once
\* and the model call at most once; a failure of either moves the run to
\* "failed" with no further fetch or model call.
C13_FailureMovesToFailedOnce ==
    [][\A r \in Extractions :
          LET a == runs[r]
              b == runs'[r]
          IN  /\ b.fetches[1] <= 1 /\ b.model_calls <= 1
              /\ a.pc \in Ended =>
                     b.fetches = a.fetches /\ b.model_calls = a.model_calls
              /\ (a.pc = "ext_fetch" /\ b.fetches[1] > a.fetches[1] /\ b.pc # "ext_model")
                     => EndedInFailed(b)
              /\ (a.pc = "ext_model" /\ b.model_calls > a.model_calls
                      /\ b.pc # "ext_finish")
                     => EndedInFailed(b)]_vars

\* The part of C13 that holds on every run of either kind: nothing is
\* attempted twice. An extraction run fetches and calls the model at most
\* once and does neither after its stream ended; a discovery run never comes
\* back to a candidate it has left, whether the candidate's pass failed or not.
NeverReattempted ==
    [][\A r \in DOMAIN runs :
          LET a == runs[r]
              b == runs'[r]
          IN  /\ a.pc \in Ended =>
                     b.fetches = a.fetches /\ b.model_calls = a.model_calls
              /\ r \in Extractions => b.fetches[1] <= 1 /\ b.model_calls <= 1
              /\ r \in Discoveries =>
                     /\ b.i >= a.i
                     /\ \A k \in DOMAIN a.regattas :
                            k < a.i => /\ b.fetches[k] = a.fetches[k]
                                       /\ b.regattas[k].error = a.regattas[k].error
                     /\ (a.pc = "disc_cand" /\ b.regattas[a.i].error # None)
                            => /\ b.i = a.i + 1
                               /\ b.fetches[a.i] <= 1
                               /\ b.model_calls <= a.model_calls + 1]_vars

\* The step is the completion of the run that was issued the token.
InsertsOnCompletion(task_id) ==
    \E r \in DOMAIN runs :
        /\ runs[r].task_id = task_id
        /\ runs[r].pc \notin Ended
        /\ EndedInDone(runs'[r])

\* The step is the pop of a retrieval that presented the token.
PopsOnRetrieval(task_id) ==
    \E q \in DOMAIN retrievals :
        /\ retrievals[q].task_id = task_id
        /\ retrievals[q].pc = "pop"
        /\ retrievals'[q].pc = "served"

StoreChangedOnlyByInsertAndPop(store, store_after) ==
    /\ \A t \in DOMAIN store :
          \/ t \in DOMAIN store_after /\ store_after[t] = store[t]
          \/ t \notin DOMAIN store_after /\ PopsOnRetrieval(t)
    /\ \A t \in DOMAIN store_after \ DOMAIN store : InsertsOnCompletion(t)

\* C17: the held-result store is changed only by insert-on-completion and
\* pop-on-retrieval: an entry, once inserted, stays in the store with
\* unchanged content until a retrieval with its token removes it; no other
\* operation (later runs, failed runs, confirmation) removes, expires or
\* overwrites it.
C17_StoreChangedOnlyByInsertAndPop ==
    [][/\ StoreChangedOnlyByInsertAndPop(extraction_results, extraction_results')
       /\ StoreChangedOnlyByInsertAndPop(discovery_results, discovery_results')]_vars

\* The first run's result is still held as it was inserted after a second
\* run completed, a confirmation was made and a retrieval with another token
\* was turned away.
C17_EntryOutlivesLaterOperations ==
    /\ Len(runs) = 2
    /\ EndedInDone(runs[1]) /\ runs[1].kind = "multi"
    /\ EndedInDone(runs[2]) /\ runs[2].kind = "single"
    /\ confirm_log # <<>>
    /\ \E q \in DOMAIN retrievals :
          retrievals[q].task_id # runs[1].task_id /\ retrievals[q].pc = "served"
    /\ runs[1].task_id \in DOMAIN extraction_results
    /\ extraction_results[runs[1].task_id] = Held("regattas", runs[1].regattas)

\* Where the error message of a "failed" event is: in the event itself, or in
\* the "error" event sent immediately before it.
FailedHasMessage(events, k) ==
    \/ events[k].message
    \/ k > 1 /\ events[k - 1].type = "error" /\ events[k - 1].message

\* C19: every "done" event carries the run's token and a human summary, and
\* every "failed" event carries an error message.
C19_DoneAndFailedCarryTheirData ==
    \A r \in DOMAIN runs :
        \A k \in DOMAIN runs[r].events :
            LET ev == runs[r].events[k]
            IN  /\ ev.type = "done" => ev.task_id = runs[r].task_id /\ ev.summary
                /\ ev.type = "failed" => FailedHasMessage(runs[r].events, k)

\* The input errors of an extraction run: nothing submitted, a URL without
\* scheme or host, a scheme other than http/https, a host the guard rejects.
InputError(run) ==
    \/ run.schedule_url = "" /\ (run.kind = "single" \/ run.schedule_text = "")
    \/ run.schedule_url # "" /\ \/ urlparse(run.schedule_url).scheme \notin {"http", "https"}
                                \/ urlparse(run.schedule_url).hostname = None
    \/ run.guard_rejected

\* C21: an extraction run whose input is empty, or whose URL has no scheme or
\* host, a scheme other than http/https, or a host rejected by the SSRF guard,
\* ends in "failed" with a user-facing error message; no HTTP request is
\* issued for the URL and the model provider is never called.
C21_InputErrorFailsWithoutRequest ==
    \A r \in Extractions :
        (InputError(runs[r]) /\ runs[r].pc # "ext_fetch") =>
            /\ EndedInFailed(runs[r])
            /\ FailedHasMessage(runs[r].events, Len(runs[r].events))
            /\ ~runs[r].http_sent
            /\ runs[r].model_calls = 0
            /\ runs[r].task_id \notin DOMAIN extraction_results

\* A run on a well-formed URL whose host resolves to a private address.
C21_GuardRejectedRunFailed ==
    \E r \in Extractions :
        /\ runs[r].schedule_url = PlainUrl
        /\ runs[r].guard_rejected
        /\ runs[r].fetches = <<1>>
        /\ EndedInFailed(runs[r])

----------------------------------------------------------------------------
(* A caller that goes away: properties under SpecDisconnect *)

\* C18: if the caller disconnects before the terminal event is delivered, the
\* invocation stops with no side effects: no held result is left in the store
\* for that run and nothing is persisted.
C18_DisconnectLeavesNothing ==
    \A r \in DOMAIN runs :
        ~runs[r].connected =>
            /\ runs[r].task_id \notin DOMAIN extraction_results
            /\ runs[r].task_id \notin DOMAIN discovery_results
            /\ db_regattas = <<StoredRegatta>>
            /\ db_documents = <<>>

----------------------------------------------------------------------------
(* Response parsing: properties under SpecParse *)

Parses == {k \in DOMAIN fetch_log : fetch_log[k].op = "parse"}

HasFence(text) == \E k \in DOMAIN text : text[k] = Fence

\* C22: response parsing returns a result only for a JSON array: text that is
\* not valid JSON always fails with the "Could not parse the AI response"
\* value error, and valid JSON whose top level is not an array always fails
\* with the "Unexpected AI response format" value error.
C22_OnlyArraysParse ==
    \A k \in Parses :
        LET raw == fetch_log[k].raw
            out == fetch_log[k].out
            json == json_loads(raw)
        IN  /\ \/ out.result = "ok" /\ out.message = ""
               \/ /\ out.result = "ValueError" /\ out.data = <<>>
                  /\ out.message \in {CouldNotParse, UnexpectedFormat}
            /\ ~HasFence(raw) =>
                   /\ ~json.ok => out.result = "ValueError" /\ out.message = CouldNotParse
                   /\ (json.ok /\ json.value.kind # "array") =>
                          out.result = "ValueError" /\ out.message = UnexpectedFormat
                   /\ (json.ok /\ json.value.kind = "array") =>
                          out.result = "ok" /\ out.data = json.value.items

\* An object between white space was turned down as no array.
C22_ObjectTurnedDown ==
    \E k \in Parses :
        /\ fetch_log[k].raw = <<" ", "{}", NL>>
        /\ fetch_log[k].out.result = "ValueError"
        /\ fetch_log[k].out.message = UnexpectedFormat

IsArrayText(text) == json_loads(text).ok /\ json_loads(text).value.kind = "array"

\* C23: for every JSON array text A, parsing A wrapped in a triple-backtick
\* fence (with or without a language tag on the opening line) yields the same
\* result as parsing A unwrapped, and leading or trailing white space around
\* the response does not change the result.
C23_FenceAndMarginsChangeNothing ==
    \A k \in Parses :
        LET call == fetch_log[k]
            wrapped == call.open # <<>> /\ call.close # <<>>
            bare == call.open = <<>> /\ call.close = <<>>
        IN  (IsArrayText(call.body) /\ (wrapped \/ bare)) =>
                /\ call.out = parse_json_response(call.body)
                /\ call.out.result = "ok"
                /\ call.out.data = json_loads(call.body).value.items

\* A two-element array on three lines under a tagged fence, with white space
\* before and after the response.
C23_FencedArrayParsed ==
    \E k \in Parses :
        /\ fetch_log[k].open = <<Fence, "json", NL>>
        /\ fetch_log[k].close = <<NL, Fence>>
        /\ fetch_log[k].margins = <<" ", NL>>
        /\ fetch_log[k].body = <<"[", "null", ",", "{}", "]">>
        /\ fetch_log[k].out.result = "ok"
        /\ Len(fetch_log[k].out.data) = 2

----------------------------------------------------------------------------
(* Client operations: properties under SpecClient *)

ClientCalls == {k \in DOMAIN fetch_log : fetch_log[k].op \in ClientOps}

\* C24: in each of the three client operations, every provider failure
\* (connection failure, rate limiting, non-2xx status) reaches the caller as
\* the ConnectionError and never as an exception type of the provider; and a
\* ConnectionError is raised for nothing else.
C24_ProviderFailuresAreConnectionErrors ==
    \A k \in ClientCalls :
        LET ai == fetch_log[k].ai
            out == fetch_log[k].out
        IN  /\ (ai.key /\ ai.call # "ok") =>
                   /\ out.result = "ConnectionError"
                   /\ out.data = <<>>
            /\ out.result \in {"ok", "ValueError", "ConnectionError"}
            /\ out.result = "ConnectionError" => (ai.key /\ ai.call # "ok")

\* Deep discovery met a rate limit and raised the ConnectionError.
C24_EveryFailureMapped ==
    \E k \in ClientCalls :
        /\ fetch_log[k].op = "discover_documents_deep"
        /\ fetch_log[k].ai.key
        /\ fetch_log[k].ai.call = "RateLimitError"
        /\ fetch_log[k].out.result = "ConnectionError"

\* C25: when the provider credential is not configured, each client operation
\* fails with the configuration error (the ValueError "ANTHROPIC_API_KEY is not
\* configured.") before any provider call is made; an extraction run whose
\* model step failed that way made no provider call, ended in "failed" after
\* the error event that carries the message, and holds no result.
C25_MissingCredentialFailsBeforeCall ==
    /\ \A k \in ClientCalls :
           LET ai == fetch_log[k].ai
               out == fetch_log[k].out
           IN  /\ ~ai.key =>
                      /\ out.result = "ValueError" /\ ~out.called /\ out.data = <<>>
                      /\ fetch_log[k].op = "extract_regattas" => out.message = NotConfigured
               /\ ai.key => out.called
               /\ (fetch_log[k].op = "extract_regattas" /\ out.message = NotConfigured)
                      => ~ai.key
    /\ \A r \in Extractions :
           LET run == runs[r]
               n == Len(run.events)
           IN  run.model_error = NotConfigured =>
                   /\ run.model_calls = 0
                   /\ run.pc = "closed"
                   /\ n >= 2 /\ run.events[n - 1] = Error /\ run.events[n] = Failed
                   /\ \A e \in Range(run.events) : e.type # "done"
                   /\ run.task_id \notin DOMAIN extraction_results

\* An extraction run on pasted text ended in "failed" with the message of the
\* missing credential.
C25_RunFailedOnMissingCredential ==
    \E r \in Extractions :
        /\ runs[r].schedule_text = "pasted text"
        /\ runs[r].model_error = NotConfigured
        /\ runs[r].pc = "closed"
        /\ runs[r].model_calls = 0

----------------------------------------------------------------------------
(* The duplicate check of an extraction run: properties under SpecExtract *)

\* The runs whose duplicate check is over
Checked == {r \in Extractions : runs[r].pc \in Ended /\ runs[r].regattas # <<>>}

Matches(c, row) ==
    /\ lower(row.name) = lower(c.name)
    /\ row.start_date = fromisoformat(c.start_date)

\* C26: in an extraction run, a candidate that has a name and a start date is
\* flagged duplicate_of exactly when a stored regatta has the same name
\* ignoring case and exactly the same start date, so several candidates that
\* match the same stored regatta are all flagged and a candidate one day off
\* is not; and the check changes no stored record.
C26_FlaggedExactlyOnMatch ==
    /\ \A r \in Checked :
           \A k \in DOMAIN runs[r].regattas :
               LET c == runs[r].regattas[k]
               IN  Checkable(c) =>
                      (c.duplicate_of # 0 <=>
                          \E j \in DOMAIN db_regattas : Matches(c, db_regattas[j]))
    /\ db_regattas = <<StoredRegatta>>

----------------------------------------------------------------------------
(* Known-platform resolver: properties under SpecResolver *)

ParsedIds == {k \in DOMAIN fetch_log : fetch_log[k].op = "parse_id"}

\* C27: the resolver recognises a URL only when its host is the platform's: a
\* URL on any other host, one whose name merely contains the platform's
\* domain among them, yields no identifier.
C27_OnlyThePlatformHostRecognised ==
    \A k \in ParsedIds :
        urlparse(fetch_log[k].url).hostname # "theclubspot.com" =>
            fetch_log[k].out = None

\* C28: the resolver returns the identifier for a platform URL whose path
\* begins with /regatta/<id>, with or without a further sub-path, over http
\* or https, and returns nothing for a platform URL with another path, for a
\* URL on another host, and for the empty string.
C28_IdentifierOnlyFromRegattaPaths ==
    \A k \in ParsedIds :
        LET url == fetch_log[k].url
            out == fetch_log[k].out
        IN  /\ url = ClubspotUrl => out = "abc123"
            /\ url = SubPathUrl => out = "abc123"
            /\ url = HttpClubspotUrl => out = "XYZ789"
            /\ url = "https://theclubspot.com/club/abc123" => out = None
            /\ url = "" => out = None
            /\ url \in {PlainUrl, OtherUrl, LookalikeUrl, "ftp://club.example/r1",
                         "club.example/r1", "http:///r1"} => out = None

PlatformQueries == {k \in DOMAIN fetch_log : fetch_log[k].op = "clubspot_docs"}

\* The platform's item that a document of the result stands for
StandsFor(doc, item) ==
    /\ doc.url = item.URL
    /\ \/ item.type \in {"nor", "NOR"} /\ doc.doc_type = "NOR"
                                        /\ doc.label = "Notice of Race"
       \/ item.type \in {"si", "SI"} /\ doc.doc_type = "SI"
                                      /\ doc.label = "Sailing Instructions"

\* C29: the resolver's result holds exactly one document per platform item
\* whose type is nor or si in any case and whose URL is not empty, as NOR with
\* the label "Notice of Race" or SI with the label "Sailing Instructions", in
\* the platform's order; items of another type or without URL are dropped.
C29_OneDocumentPerNorOrSiItem ==
    \A k \in PlatformQueries :
        fetch_log[k].api.outcome = "ok" =>
            LET results == fetch_log[k].api.results
                docs == fetch_log[k].out.data
                kept == {j \in DOMAIN results :
                            /\ results[j].type \in {"nor", "NOR", "si", "SI"}
                            /\ results[j].URL # ""}
            IN  /\ fetch_log[k].out.result = "ok"
                /\ Len(docs) = Cardinality(kept)
                /\ \E from \in [DOMAIN docs -> DOMAIN results] :
                       /\ {from[j] : j \in DOMAIN docs} = kept
                       /\ \A i, j \in DOMAIN docs : i < j => from[i] < from[j]
                       /\ \A j \in DOMAIN docs : StandsFor(docs[j], results[from[j]])

\* The platform listed the instructions in capitals and then a results sheet:
\* one SI document came back.
C29_UpperCaseSiKept ==
    \E k \in PlatformQueries :
        /\ fetch_log[k].api.outcome = "ok"
        /\ fetch_log[k].api.results = <<ApiItem("SI", "https://cdn.example/si.pdf"),
                                        ApiItem("results", "https://cdn.example/res.pdf")>>
        /\ fetch_log[k].out.data =
               <<[doc_type |-> "SI", url |-> "https://cdn.example/si.pdf",
                  label |-> "Sailing Instructions"]>>

\* C30: a request failure, a non-2xx status, an undecodable or unexpectedly
\* shaped response of the platform API makes the resolver return an empty
\* list; no error reaches the resolver's caller.
C30_PlatformFailuresGiveEmptyList ==
    \A k \in PlatformQueries :
        /\ fetch_log[k].out.result = "ok"
        /\ fetch_log[k].api.outcome # "ok" => fetch_log[k].out.data = <<>>

----------------------------------------------------------------------------
(* Documents of the confirmation step: properties under SpecConfirm *)

\* A submitted row that is checked and has a type and a URL
Attachable(row) ==
    row.checkbox /\ strip(row.doc_type) # "" /\ strip(row.doc_url) # ""

\* C31: in the confirmation step a Document is persisted only for an entry
\* whose regatta was created in that step, and only for a submitted row of
\* that entry that is checked and has both a type and a URL; the reported
\* attached count is the number of Documents persisted, and skipped entries
\* get no documents.
C31_DocumentsOnlyForCreatedAndChecked ==
    \A c \in DOMAIN confirm_log :
        LET rec == confirm_log[c]
            n == Len(rec.selected)
            RegattaId(k) == Len(rec.before)
                               + Cardinality({j \in 1..k : rec.outcomes[j] = "created"})
            DocsOf(id) == {d \in DOMAIN db_documents : db_documents[d].regatta_id = id}
        IN  /\ rec.docs_created = Len(db_documents)
            /\ \A d \in DOMAIN db_documents :
                   \E k \in 1..n :
                       /\ rec.outcomes[k] = "created"
                       /\ db_documents[d].regatta_id = RegattaId(k)
                       /\ db_regattas[RegattaId(k)].name = strip(rec.selected[k].name)
                       /\ \E i \in DOMAIN rec.selected[k].docs :
                              LET row == rec.selected[k].docs[i]
                              IN  /\ Attachable(row)
                                  /\ db_documents[d].doc_type = strip(row.doc_type)
                                  /\ db_documents[d].url = strip(row.doc_url)
            /\ \A k \in 1..n :
                   rec.outcomes[k] = "created" =>
                       Cardinality(DocsOf(RegattaId(k))) <=
                           Cardinality({i \in DOMAIN rec.selected[k].docs :
                                           Attachable(rec.selected[k].docs[i])})
            /\ rec.created = 0 => db_documents = <<>>

\* A duplicate of the stored regatta with a checked row was skipped, and a
\* new regatta got the checked one of its two rows.
C31_SkippedEntryGotNoDocument ==
    \E c \in DOMAIN confirm_log :
        /\ confirm_log[c].before = <<StoredRegatta>>
        /\ confirm_log[c].outcomes = <<"skipped", "created">>
        /\ confirm_log[c].selected[1].docs = <<DocRow(TRUE, "NOR", PlainUrl)>>
        /\ Len(confirm_log[c].selected[2].docs) = 2
        /\ confirm_log[c].docs_created = 1
        /\ db_documents = <<Document(2, "SI", OtherUrl)>>

----------------------------------------------------------------------------
(* RSVP submissions: properties under SpecRsvp *)

RsvpsOf(regatta_id, user_id) ==
    {k \in DOMAIN db_rsvps :
        db_rsvps[k].regatta_id = regatta_id /\ db_rsvps[k].user_id = user_id}

\* C32: after any sequence and any interleaving of RSVP submissions there is
\* at most one RSVP per (regatta, user), and its status is the valid status
\* committed last; a submission whose status is none of yes, no and maybe
\* changes nothing.
C32_OneRsvpWithLastCommittedStatus ==
    /\ \A q \in DOMAIN rsvp_requests :
           LET req == rsvp_requests[q]
           IN  /\ req.pc = "invalid" <=>
                      req.form_status \notin {"yes", "no", "maybe", "YES"}
               /\ req.pc = "committed" => req.status \in {"yes", "no", "maybe"}
    /\ \A regatta_id \in RsvpRegattas, user_id \in RsvpUsers :
           LET rows == RsvpsOf(regatta_id, user_id)
               commits == {q \in Committed :
                              /\ rsvp_requests[q].regatta_id = regatta_id
                              /\ rsvp_requests[q].user_id = user_id}
           IN  /\ Cardinality(rows) <= 1
               /\ commits = {} <=> rows = {}
               /\ \A q \in commits :
                      (\A p \in commits : rsvp_requests[p].seq <= rsvp_requests[q].seq)
                          => \A k \in rows : db_rsvps[k].status = rsvp_requests[q].status

----------------------------------------------------------------------------
(* Structured data of a fetched page: properties under SpecFetch *)

\* C33: a malformed JSON-LD block or data-attribute JSON value on a fetched
\* page is skipped silently: the page fetch does not raise and the page text
\* is returned.
C33_MalformedStructuredDataSkipped ==
    \A k \in DOMAIN fetch_log :
        (/\ fetch_log[k].op = "fetch"
         /\ fetch_log[k].requests # <<>>
         /\ fetch_log[k].final \in {"jsonld_undecodable", "jsonld_not_object",
                                     "data_attr_undecodable"})
            => fetch_log[k].result = "ok" /\ fetch_log[k].text = "page text"

----------------------------------------------------------------------------
(* Past events of an extraction run: properties under SpecExtract *)

\* Whether the day a start date names lies before Today; a candidate without
\* start date counts as past.
BeforeToday(start_date) ==
    start_date \in {None, "", "2026-03-15", "March 15, 2020"}

\* C34: in a multi-event extraction run a candidate is marked is_past exactly
\* when its start date is earlier than today's date, a candidate without
\* start date being marked past as well; the past and the upcoming candidates
\* together are the candidates of the held result.
C34_PastExactlyWhenBeforeToday ==
    \A r \in Extractions :
        (runs[r].kind = "multi" /\ runs[r].task_id \in DOMAIN extraction_results) =>
            LET held == extraction_results[runs[r].task_id].items
            IN  /\ Len(held) = Len(runs[r].regattas)
                /\ \A k \in DOMAIN held :
                       held[k].is_past <=> BeforeToday(held[k].start_date)

----------------------------------------------------------------------------
(* Removal of held results: properties under Spec *)

\* C35: a held result is removed from its store only by a retrieval that
\* returns its candidates to the caller; no retrieval request, one that
\* presents the token of a single-event extraction to the multi-event preview
\* or the reverse among them, removes an entry without delivering it.
C35_RemovedOnlyWhenDelivered ==
    [][\A task_id \in TaskIds :
          (\/ /\ task_id \in DOMAIN extraction_results
              /\ task_id \notin DOMAIN extraction_results'
           \/ /\ task_id \in DOMAIN discovery_results
              /\ task_id \notin DOMAIN discovery_results')
          => \E q \in DOMAIN retrievals :
                 /\ retrievals[q].pc = "pop"
                 /\ retrievals'[q].pc = "served"
                 /\ retrievals'[q].task_id = task_id
                 /\ retrievals'[q].outcome = "returned"]_vars

----------------------------------------------------------------------------
(* Failures inside a discovery run: properties under SpecDiscover *)

\* The candidate's passes made a call of the deep pass.
HadDeepPass(run, k) == \E j \in DOMAIN run.calls[k] : run.calls[k][j].pass = "deep"

\* C36: when the shallow page fetch or the shallow discovery call of a candidate
\* fails, the candidate carries a non-null error and an empty document list
\* from then on to the end of the run, and no deep pass is made for it.
C36_ShallowFailureLeavesErrorAndNoDocuments ==
    \A r \in Discoveries : \A k \in DOMAIN runs[r].regattas :
        runs[r].shallow_failed[k] \in {"fetch", "call"} =>
            /\ runs[r].regattas[k].error # None
            /\ runs[r].regattas[k].documents = <<>>
            /\ ~HadDeepPass(runs[r], k)
            /\ runs[r].fetches[k] = 1

\* C36 witness: a finished run whose first candidate failed at the page fetch
\* and whose second failed at the discovery call, both handed back with the
\* error and no documents.
C36_BothKindsOfFailureHeld ==
    \E r \in Discoveries :
        /\ runs[r].pc = "closed"
        /\ Len(runs[r].regattas) = 2
        /\ runs[r].shallow_failed = <<"fetch", "call">>
        /\ runs[r].task_id \in DOMAIN discovery_results
        /\ \A k \in 1..2 :
              /\ discovery_results[runs[r].task_id][k].error # None
              /\ discovery_results[runs[r].task_id][k].documents = <<>>

\* A deep pass of candidate k of run r raised in this step.
DeepFailedNow(r, k) == runs'[r].deep_failed[k] > runs[r].deep_failed[k]

\* C37: a failure during a deep pass leaves the candidate's documents as they
\* were, leaves its error field as it was, and the run goes on: to the
\* candidate's next WWW link when one is left, else to the next candidate or
\* to the end of the loop over the candidates.
C37_DeepFailureChangesNothingAndGoesOn ==
    [][\A r \in Discoveries : \A k \in DOMAIN runs[r].regattas :
          DeepFailedNow(r, k) =>
              /\ k = runs[r].i
              /\ runs'[r].regattas = runs[r].regattas
              /\ runs[r].regattas[k].error = None
              /\ IF Len(runs[r].www_docs) > 1
                 THEN /\ runs'[r].pc = "disc_deep"
                      /\ runs'[r].i = k
                      /\ runs'[r].www_docs = Tail(runs[r].www_docs)
                 ELSE /\ runs'[r].i = k + 1
                      /\ runs'[r].pc = IF k < Len(runs[r].regattas)
                                       THEN "disc_cand" ELSE "disc_finish"]_vars

\* C37 witness: the first WWW link of the first candidate failed in its deep
\* pass, the second link was examined all the same and added a document, the
\* second candidate was processed, and the run handed back both with no error
\* on the first.
C37_SecondLinkAndNextCandidateExamined ==
    \E r \in Discoveries :
        /\ runs[r].pc = "closed"
        /\ Len(runs[r].regattas) = 2
        /\ runs[r].deep_failed[1] = 1
        /\ Len(runs[r].shallow_docs[1]) = 2
        /\ \E j \in DOMAIN runs[r].calls[1] :
              /\ runs[r].calls[1][j].pass = "deep"
              /\ runs[r].calls[1][j].url = runs[r].shallow_docs[1][2].url
        /\ Len(runs[r].regattas[1].documents) = 3
        /\ runs[r].regattas[1].error = None
        /\ runs[r].regattas[2].documents # <<>>

\* C38: a candidate whose detail URL the resolver recognised never gets a deep
\* pass and no page of it is fetched; once the platform API has answered, its
\* documents are the resolver's NOR/SI documents and one WWW entry for the
\* detail URL, in the order of the append or, at the end of the run, sorted.
C38_ResolvedCandidateHasNoDeepPass ==
    \A r \in Discoveries : \A k \in DOMAIN runs[r].regattas :
        LET run == runs[r]
            url == run.regattas[k].detail_url
        IN  Recognised(url) =>
                /\ ~HadDeepPass(run, k)
                /\ run.fetches[k] = 0
                /\ ShallowPassed(run, k) /\ run.shallow_failed[k] = None =>
                       /\ run.regattas[k].error = None
                       /\ \E api \in ClubspotOutcomes :
                             LET docs == Append(api.data, RegattaWebsite(url))
                             IN  /\ api.result = "ok"
                                 /\ \A j \in DOMAIN api.data :
                                        api.data[j].doc_type \in {"NOR", "SI"}
                                 /\ run.regattas[k].documents \in {docs, SortDocs(docs)}

\* C38 witness: a finished run handed back a resolved candidate with the
\* resolver's NOR and SI documents and the WWW entry of its detail URL, while
\* another candidate of the same run got a deep pass.
C38_ResolvedHeldWithThreeDocuments ==
    \E r \in Discoveries :
        /\ runs[r].pc = "closed"
        /\ Len(runs[r].regattas) = 2
        /\ runs[r].regattas[1].detail_url = ClubspotUrl
        /\ runs[r].task_id \in DOMAIN discovery_results
        /\ LET held == discovery_results[runs[r].task_id][1].documents
           IN  /\ Len(held) = 3
               /\ DocTypes(held) = {"NOR", "SI", "WWW"}
               /\ held[3] = RegattaWebsite(ClubspotUrl)
        /\ HadDeepPass(runs[r], 2)

----------------------------------------------------------------------------
(* The two copies of the response parsing: a property under SpecParse *)

\* C39: for every raw response text the inline fence stripping and parsing of
\* extract_regattas gives the same list, or the same error with the same
\* message, as _parse_json_response, which the two discovery operations use.
C39_InlineParsingSameAsHelper ==
    \A k \in Parses : fetch_log[k].inline = fetch_log[k].out

\* C39 witness: a response with white space around a fenced block whose content
\* is no array was turned down by both with the same message, the fence lines
\* having been removed by both.
C39_FencedObjectTurnedDownByBoth ==
    \E k \in Parses :
        /\ fetch_log[k].open = <<Fence, "json", NL>>
        /\ fetch_log[k].close = <<NL, Fence>>
        /\ fetch_log[k].margins = <<NL, " ">>
        /\ fetch_log[k].body = <<"{}">>
        /\ fetch_log[k].inline.result = "ValueError"
        /\ fetch_log[k].inline.message = UnexpectedFormat
        /\ fetch_log[k].out = fetch_log[k].inline

====
